---- MODULE Spec2Model ----
(***************************************************************************)
(* SQL Forge: the query document (QueryNode tree), the recursive SQL       *)
(* generator buildSQL and the QueryNodeEditor operations that edit the     *)
(* tree by whole-node replacement.                                         *)
(*                                                                         *)
(* Text is a sequence of tokens.  The tokens the generator itself emits    *)
(* (keywords, punctuation, the newline NL, the two-space unit IND, the     *)
(* single space SP) are kept apart from the strings the user typed, which  *)
(* are uninterpreted: a user string is one token, the empty string is no   *)
(* token at all.  Concatenation of text is \o.                             *)
(***************************************************************************)
EXTENDS Integers, Sequences, FiniteSets, TLC

VARIABLES root, depth, sql, pc, steps, queryName, toast, download, reading

vars == <<root, depth, sql, pc, steps, queryName, toast, download, reading>>

\* the state of the page besides the document: the query name, the toast,
\* the file the last export wrote, the files a FileReader is reading
pageVars == <<queryName, toast, download, reading>>

----------------------------------------------------------------------------
(* Bounds                                                                  *)

MaxSteps == 2

MaxDepthArg == 2

MaxNest == 4

----------------------------------------------------------------------------
(* types.ts: the document model                                            *)

SUBQUERY_OPERATORS == {"IN", "NOT IN", "EXISTS", "NOT EXISTS"}

OPERATORS == {"=", "!=", ">", "<", ">=", "<=", "LIKE", "IN", "NOT IN", "IS NULL", "IS NOT NULL", "EXISTS", "NOT EXISTS"}

SQLOperation == {"SELECT", "INSERT", "UPDATE", "DELETE"}

LogicGate == {"AND", "OR"}

\* Condition.subQueryId?: the key is missing (Absent), present with the
\* value undefined (Undefined), or holds the id of a subquery (1, 2, ...).
Absent == 0 - 1

Undefined == 0

\* JavaScript truthiness of cond.subQueryId
Truthy(subQueryId) == subQueryId \notin {Absent, Undefined}

\* subQueries[id] of a Record<string, QueryNode>: the entry of the key; for
\* a key the record does not hold, the member of that name every object
\* inherits ("constructor", "toString", "valueOf", "__proto__", ...), a
\* truthy value that is no QueryNode; undefined for any other missing key.
\* InheritedKey stands for the ids that are such names.
UndefinedNode == [undefined |-> TRUE]

IsUndefined(n) == "undefined" \in DOMAIN n

InheritedKey == 0 - 2

InheritedMember == [inherited |-> TRUE]

IsInherited(n) == "inherited" \in DOMAIN n

Lookup(subQueries, id) ==
    IF id \in DOMAIN subQueries THEN subQueries[id]
    ELSE IF id = InheritedKey THEN InheritedMember
    ELSE UndefinedNode

NoSubQueries == [k \in {} |-> UndefinedNode]

----------------------------------------------------------------------------
(* Text                                                                    *)

NL == "\n"

IND == "  "

SP == " "

SEMI == ";"

\* what a TypeError raised by reading a property of undefined leaves behind,
\* at the place of the text where it is raised
THROW == "<TypeError>"

PH_TABLE == "-- Please fill in the table name"

PH_INSERT == "-- Add at least one column"

PH_UPDATE == "-- Add at least one SET column"

\* ${s} of a user string inside a template literal
Str(s) == IF s = "" THEN <<>> ELSE <<s>>

\* "  ".repeat(n)
Repeat(n) == [i \in 1..n |-> IND]

\* String.prototype.trim on the user strings of the model: the blank
\* strings trim to the empty string, padded names lose their padding
Trim(s) == CASE s = " " -> ""
             [] s = "  " -> ""
             [] s = " id " -> "id"
             [] OTHER -> s

\* the last token of a text, the last element of a list
Last(t) == t[Len(t)]

RECURSIVE Flatten(_)
\* the concatenation of a sequence of texts
Flatten(ts) == IF ts = <<>> THEN <<>> ELSE Head(ts) \o Flatten(Tail(ts))

RECURSIVE Join(_, _)
\* Array.prototype.join: the texts of parts separated by sep
Join(parts, sep) == IF parts = <<>> THEN <<>>
                    ELSE IF Len(parts) = 1 THEN parts[1]
                    ELSE parts[1] \o sep \o Join(Tail(parts), sep)

RECURSIVE Split(_)
\* String.prototype.split("\n"): always at least one (possibly empty) line
Split(t) == IF \A i \in 1..Len(t) : t[i] # NL THEN <<t>>
            ELSE LET k == CHOOSE i \in 1..Len(t) : t[i] = NL /\ \A j \in 1..(i - 1) : t[j] # NL
                 IN <<SubSeq(t, 1, k - 1)>> \o Split(SubSeq(t, k + 1, Len(t)))

----------------------------------------------------------------------------
(* page: the toast and the files                                           *)

\* toast === null
NoToast == [type |-> "none", msg |-> <<>>]

Toast(type, msg) == [type |-> type, msg |-> msg]

\* no export has written a file yet
NoFile == [name |-> "", text |-> "none"]

----------------------------------------------------------------------------
(* sql-builder: buildSQL                                                   *)

RECURSIVE BuildSQL(_, _)
RECURSIVE ResolveConditionValue(_, _, _)
RECURSIVE BuildWhereClause(_, _, _, _, _)
RECURSIVE BuildSelect(_, _, _, _)
RECURSIVE BuildUpdate(_, _, _, _)
RECURSIVE BuildDelete(_, _, _, _)


\* resolveConditionValue closing the parenthesis at the indent of the node
ResolveConditionValueCloseAtDepth(cond, subQueries, d) ==
    IF Truthy(cond.subQueryId) /\ ~IsUndefined(Lookup(subQueries, cond.subQueryId))
    THEN LET subSQL == BuildSQL(Lookup(subQueries, cond.subQueryId), d + 2)
             lines == Split(subSQL)
             indented == Join([i \in 1..Len(lines) |->
                                 IF i = 1 THEN lines[i] ELSE Repeat(d + 2) \o lines[i]], <<NL>>)
         IN <<"(", NL>> \o Repeat(d + 2) \o indented \o <<NL>> \o Repeat(d) \o <<")">>
    ELSE <<"'">> \o Str(cond.value) \o <<"'">>

ResolveConditionValue(cond, subQueries, d) ==
    IF Truthy(cond.subQueryId) /\ ~IsUndefined(Lookup(subQueries, cond.subQueryId))
    THEN LET subSQL == BuildSQL(Lookup(subQueries, cond.subQueryId), d + 2)
             lines == Split(subSQL)
             indented == Join([i \in 1..Len(lines) |->
                                 IF i = 1 THEN lines[i] ELSE Repeat(d + 2) \o lines[i]], <<NL>>)
         IN <<"(", NL>> \o Repeat(d + 2) \o indented \o <<NL>> \o Repeat(d + 1) \o <<")">>
    ELSE <<"'">> \o Str(cond.value) \o <<"'">>

\* the clause of one condition (the body of the map callback, before the logic prefix)
ConditionClause(c, subQueries, d) ==
    LET col == IF c.column # "" THEN c.column ELSE "column"
        isSubQuery == Truthy(c.subQueryId)
        isNullOp == c.operator \in {"IS NULL", "IS NOT NULL"}
        isExistsOp == c.operator \in {"EXISTS", "NOT EXISTS"}
    IN IF isExistsOp THEN <<c.operator, SP>> \o ResolveConditionValue(c, subQueries, d)
       ELSE IF isNullOp THEN <<col, SP, c.operator>>
       ELSE IF isSubQuery THEN <<col, SP, c.operator, SP>> \o ResolveConditionValue(c, subQueries, d)
       ELSE <<col, SP, c.operator, SP, "'">> \o Str(c.value) \o <<"'">>


\* buildWhereClause with the indent put after the keyword
BuildWhereClauseIndentAfter(conditions, subQueries, d, indent, inner) ==
    IF Len(conditions) = 0 THEN <<>>
    ELSE LET parts == [i \in 1..Len(conditions) |->
                         IF i = 1 THEN ConditionClause(conditions[i], subQueries, d)
                         ELSE <<conditions[i].logic, SP>> \o ConditionClause(conditions[i], subQueries, d)]
         IN <<NL, "WHERE", SP>> \o indent \o Join(parts, <<NL>> \o inner)

\* buildWhereClause without the early return on an empty list
BuildWhereClauseAlways(conditions, subQueries, d, indent, inner) ==
    LET parts == [i \in 1..Len(conditions) |->
                    IF i = 1 THEN ConditionClause(conditions[i], subQueries, d)
                    ELSE <<conditions[i].logic, SP>> \o ConditionClause(conditions[i], subQueries, d)]
    IN <<NL>> \o indent \o <<"WHERE", SP>> \o Join(parts, <<NL>> \o inner)

\* buildWhereClause putting the logic word before the first clause too
BuildWhereClauseLogicFirst(conditions, subQueries, d, indent, inner) ==
    IF Len(conditions) = 0 THEN <<>>
    ELSE LET parts == [i \in 1..Len(conditions) |->
                         <<conditions[i].logic, SP>> \o ConditionClause(conditions[i], subQueries, d)]
         IN <<NL>> \o indent \o <<"WHERE", SP>> \o Join(parts, <<NL>> \o inner)

BuildWhereClause(conditions, subQueries, d, indent, inner) ==
    IF Len(conditions) = 0 THEN <<>>
    ELSE LET parts == [i \in 1..Len(conditions) |->
                         IF i = 1 THEN ConditionClause(conditions[i], subQueries, d)
                         ELSE <<conditions[i].logic, SP>> \o ConditionClause(conditions[i], subQueries, d)]
         IN <<NL>> \o indent \o <<"WHERE", SP>> \o Join(parts, <<NL>> \o inner)

JoinRenders(j) == j.table # "" /\ j.onLeft # "" /\ j.onRight # ""

JoinLine(j, indent) ==
    IF JoinRenders(j)
    THEN <<NL>> \o indent \o <<j.type, SP, "JOIN", SP, j.table, SP, "ON", SP, j.onLeft, SP, "=", SP, j.onRight>>
    ELSE <<>>

HasColumn(e) == e.column # ""

OrderByCols(orderBy) ==
    LET f == SelectSeq(orderBy, HasColumn)
    IN Join([i \in 1..Len(f) |-> <<f[i].column, SP, f[i].direction>>], <<",", SP>>)

\* buildSelect putting ORDER BY before the WHERE clause
BuildSelectOrderFirst(node, d, indent, inner) ==
    IF node.table = "" THEN indent \o <<PH_TABLE>>
    ELSE LET cols == IF Trim(node.selectColumns) # "" THEN Trim(node.selectColumns) ELSE "*"
             sql0 == <<"SELECT", SP, cols, NL>> \o indent \o <<"FROM", SP, node.table>>
             sql1 == sql0 \o Flatten([i \in 1..Len(node.joins) |-> JoinLine(node.joins[i], indent)])
             ocols == OrderByCols(node.orderBy)
             sql2 == IF Len(node.orderBy) > 0 /\ ocols # <<>>
                     THEN sql1 \o <<NL>> \o indent \o <<"ORDER BY", SP>> \o ocols
                     ELSE sql1
             sql3 == sql2 \o BuildWhereClause(node.conditions, node.subQueries, d, indent, inner)
             sql4 == IF node.limit # "" THEN sql3 \o <<NL>> \o indent \o <<"LIMIT", SP, node.limit>>
                     ELSE sql3
         IN sql4 \o <<SEMI>>

\* buildSelect without the test that some orderBy entry has a column
BuildSelectOrderByAlways(node, d, indent, inner) ==
    IF node.table = "" THEN indent \o <<PH_TABLE>>
    ELSE LET cols == IF Trim(node.selectColumns) # "" THEN Trim(node.selectColumns) ELSE "*"
             sql0 == <<"SELECT", SP, cols, NL>> \o indent \o <<"FROM", SP, node.table>>
             sql1 == sql0 \o Flatten([i \in 1..Len(node.joins) |-> JoinLine(node.joins[i], indent)])
             sql2 == sql1 \o BuildWhereClause(node.conditions, node.subQueries, d, indent, inner)
             ocols == OrderByCols(node.orderBy)
             sql3 == IF Len(node.orderBy) > 0
                     THEN sql2 \o <<NL>> \o indent \o <<"ORDER BY", SP>> \o ocols
                     ELSE sql2
             sql4 == IF node.limit # "" THEN sql3 \o <<NL>> \o indent \o <<"LIMIT", SP, node.limit>>
                     ELSE sql3
         IN sql4 \o <<SEMI>>

BuildSelect(node, d, indent, inner) ==
    IF node.table = "" THEN indent \o <<PH_TABLE>>
    ELSE LET cols == IF Trim(node.selectColumns) # "" THEN Trim(node.selectColumns) ELSE "*"
             sql0 == <<"SELECT", SP, cols, NL>> \o indent \o <<"FROM", SP, node.table>>
             sql1 == sql0 \o Flatten([i \in 1..Len(node.joins) |-> JoinLine(node.joins[i], indent)])
             sql2 == sql1 \o BuildWhereClause(node.conditions, node.subQueries, d, indent, inner)
             ocols == OrderByCols(node.orderBy)
             sql3 == IF Len(node.orderBy) > 0 /\ ocols # <<>>
                     THEN sql2 \o <<NL>> \o indent \o <<"ORDER BY", SP>> \o ocols
                     ELSE sql2
             sql4 == IF node.limit # "" THEN sql3 \o <<NL>> \o indent \o <<"LIMIT", SP, node.limit>>
                     ELSE sql3
         IN sql4 \o <<SEMI>>


\* buildInsert testing the pairs list instead of the filled pairs
BuildInsertAnyPair(node) ==
    IF node.table = "" THEN <<PH_TABLE>>
    ELSE LET filled == SelectSeq(node.pairs, HasColumn)
         IN IF Len(node.pairs) = 0 THEN <<PH_INSERT>>
            ELSE LET cols == Join([i \in 1..Len(filled) |-> <<filled[i].column>>], <<",", SP>>)
                     vals == Join([i \in 1..Len(filled) |-> <<"'">> \o Str(filled[i].value) \o <<"'">>], <<",", SP>>)
                 IN <<"INSERT INTO", SP, node.table, SP, "(">> \o cols \o <<")", NL, "VALUES", SP, "(">>
                      \o vals \o <<")", SEMI>>

\* buildInsert appending the WHERE clause as the other builders do
BuildInsertWithWhere(node) ==
    IF node.table = "" THEN <<PH_TABLE>>
    ELSE LET filled == SelectSeq(node.pairs, HasColumn)
         IN IF Len(filled) = 0 THEN <<PH_INSERT>>
            ELSE LET cols == Join([i \in 1..Len(filled) |-> <<filled[i].column>>], <<",", SP>>)
                     vals == Join([i \in 1..Len(filled) |-> <<"'">> \o Str(filled[i].value) \o <<"'">>], <<",", SP>>)
                 IN <<"INSERT INTO", SP, node.table, SP, "(">> \o cols \o <<")", NL, "VALUES", SP, "(">>
                      \o vals \o <<")">> \o BuildWhereClause(node.conditions, node.subQueries, 0, <<>>, <<IND>>)
                      \o <<SEMI>>

BuildInsert(node) ==
    IF node.table = "" THEN <<PH_TABLE>>
    ELSE LET filled == SelectSeq(node.pairs, HasColumn)
         IN IF Len(filled) = 0 THEN <<PH_INSERT>>
            ELSE LET cols == Join([i \in 1..Len(filled) |-> <<filled[i].column>>], <<",", SP>>)
                     vals == Join([i \in 1..Len(filled) |-> <<"'">> \o Str(filled[i].value) \o <<"'">>], <<",", SP>>)
                 IN <<"INSERT INTO", SP, node.table, SP, "(">> \o cols \o <<")", NL, "VALUES", SP, "(">>
                      \o vals \o <<")", SEMI>>


\* buildUpdate testing the pairs before the table
BuildUpdatePairsFirst(node, d, indent, inner) ==
    LET filled == SelectSeq(node.pairs, HasColumn)
    IN IF Len(filled) = 0 THEN indent \o <<PH_UPDATE>>
       ELSE IF node.table = "" THEN indent \o <<PH_TABLE>>
       ELSE LET sets == Join([i \in 1..Len(filled) |->
                                inner \o <<filled[i].column, SP, "=", SP, "'">> \o Str(filled[i].value) \o <<"'">>],
                             <<",", NL>>)
                sql0 == <<"UPDATE", SP, node.table, NL>> \o indent \o <<"SET", NL>> \o sets
            IN sql0 \o BuildWhereClause(node.conditions, node.subQueries, d, indent, inner) \o <<SEMI>>

\* buildUpdate assigning every pair, also those without a column
BuildUpdateAllPairs(node, d, indent, inner) ==
    IF node.table = "" THEN indent \o <<PH_TABLE>>
    ELSE LET filled == SelectSeq(node.pairs, HasColumn)
         IN IF Len(filled) = 0 THEN indent \o <<PH_UPDATE>>
            ELSE LET sets == Join([i \in 1..Len(node.pairs) |->
                                     inner \o Str(node.pairs[i].column) \o <<SP, "=", SP, "'">>
                                       \o Str(node.pairs[i].value) \o <<"'">>],
                                  <<",", NL>>)
                     sql0 == <<"UPDATE", SP, node.table, NL>> \o indent \o <<"SET", NL>> \o sets
                 IN sql0 \o BuildWhereClause(node.conditions, node.subQueries, d, indent, inner) \o <<SEMI>>

BuildUpdate(node, d, indent, inner) ==
    IF node.table = "" THEN indent \o <<PH_TABLE>>
    ELSE LET filled == SelectSeq(node.pairs, HasColumn)
         IN IF Len(filled) = 0 THEN indent \o <<PH_UPDATE>>
            ELSE LET sets == Join([i \in 1..Len(filled) |->
                                     inner \o <<filled[i].column, SP, "=", SP, "'">> \o Str(filled[i].value) \o <<"'">>],
                                  <<",", NL>>)
                     sql0 == <<"UPDATE", SP, node.table, NL>> \o indent \o <<"SET", NL>> \o sets
                 IN sql0 \o BuildWhereClause(node.conditions, node.subQueries, d, indent, inner) \o <<SEMI>>


\* buildDelete without the final semicolon
BuildDeleteNoSemi(node, d, indent, inner) ==
    IF node.table = "" THEN indent \o <<PH_TABLE>>
    ELSE <<"DELETE FROM", SP, node.table>>
           \o BuildWhereClause(node.conditions, node.subQueries, d, indent, inner)

\* buildDelete emitting the LIMIT line as buildSelect does
BuildDeleteWithLimit(node, d, indent, inner) ==
    IF node.table = "" THEN indent \o <<PH_TABLE>>
    ELSE <<"DELETE FROM", SP, node.table>>
           \o BuildWhereClause(node.conditions, node.subQueries, d, indent, inner)
           \o (IF node.limit # "" THEN <<NL>> \o indent \o <<"LIMIT", SP, node.limit>> ELSE <<>>)
           \o <<SEMI>>

BuildDelete(node, d, indent, inner) ==
    IF node.table = "" THEN indent \o <<PH_TABLE>>
    ELSE <<"DELETE FROM", SP, node.table>>
           \o BuildWhereClause(node.conditions, node.subQueries, d, indent, inner) \o <<SEMI>>

\* A value that is no QueryNode has no operation: no case of the switch
\* matches, the result is undefined and the subSQL.split of the caller
\* raises the TypeError.
BuildSQL(node, d) ==
    IF IsUndefined(node) \/ IsInherited(node) THEN <<THROW>>
    ELSE LET indent == Repeat(d)
             inner == Repeat(d + 1)
         IN CASE node.operation = "SELECT" -> BuildSelect(node, d, indent, inner)
              [] node.operation = "INSERT" -> BuildInsert(node)
              [] node.operation = "UPDATE" -> BuildUpdate(node, d, indent, inner)
              [] node.operation = "DELETE" -> BuildDelete(node, d, indent, inner)

----------------------------------------------------------------------------
(* Constructors of the entities of types.ts                                *)

Pair(id, column, value) == [id |-> id, column |-> column, value |-> value]

Cond(id, column, operator, value, logic, subQueryId) ==
    [id |-> id, column |-> column, operator |-> operator, value |-> value,
     logic |-> logic, subQueryId |-> subQueryId]

JoinC(id, type, table, onLeft, onRight) ==
    [id |-> id, type |-> type, table |-> table, onLeft |-> onLeft, onRight |-> onRight]

Order(id, column, direction) == [id |-> id, column |-> column, direction |-> direction]

Node(id, operation, table, selectColumns, pairs, conditions, joins, orderBy, limit, subQueries) ==
    [id |-> id, operation |-> operation, table |-> table, selectColumns |-> selectColumns,
     pairs |-> pairs, conditions |-> conditions, joins |-> joins, orderBy |-> orderBy,
     limit |-> limit, subQueries |-> subQueries]

\* makeEmptyNode(operation), the two random ids being id and pairId
MakeEmptyNode(operation, id, pairId) ==
    Node(id, operation, "", "*", <<Pair(pairId, "", "")>>, <<>>, <<>>, <<>>, "", NoSubQueries)

----------------------------------------------------------------------------
(* The legacy page: flat builders over separate table, pairs, conditions,  *)
(* joins, orderBy and limit values                                         *)

\* the WHERE part the three legacy builders share, word for word
LegacyWhere(conditions) ==
    IF Len(conditions) > 0
    THEN LET clause(c) == LET col == IF c.column # "" THEN c.column ELSE "column"
                             val == IF c.operator \in {"IS NULL", "IS NOT NULL"} THEN <<>>
                                    ELSE <<SP, "'">> \o Str(c.value) \o <<"'">>
                         IN <<col, SP, c.operator>> \o val
             parts == [i \in 1..Len(conditions) |->
                         IF i = 1 THEN clause(conditions[i])
                         ELSE <<conditions[i].logic, SP>> \o clause(conditions[i])]
         IN <<NL, "WHERE", SP>> \o Join(parts, <<NL, IND>>)
    ELSE <<>>

LegacyBuildSelect(table, columns, conditions, joins, orderBy, limit) ==
    IF table = "" THEN <<PH_TABLE>>
    ELSE LET cols == IF Trim(columns) # "" THEN Trim(columns) ELSE "*"
             sql0 == <<"SELECT", SP, cols, NL, "FROM", SP, table>>
             sql1 == sql0 \o Flatten([i \in 1..Len(joins) |-> JoinLine(joins[i], <<>>)])
             sql2 == sql1 \o LegacyWhere(conditions)
             sql3 == IF Len(orderBy) > 0
                     THEN sql2 \o <<NL, "ORDER BY", SP>> \o OrderByCols(orderBy)
                     ELSE sql2
             sql4 == IF limit # "" THEN sql3 \o <<NL, "LIMIT", SP, limit>> ELSE sql3
         IN sql4 \o <<SEMI>>

LegacyBuildInsert(table, pairs) ==
    IF table = "" THEN <<PH_TABLE>>
    ELSE LET filled == SelectSeq(pairs, HasColumn)
         IN IF Len(filled) = 0 THEN <<PH_INSERT>>
            ELSE LET cols == Join([i \in 1..Len(filled) |-> <<filled[i].column>>], <<",", SP>>)
                     vals == Join([i \in 1..Len(filled) |-> <<"'">> \o Str(filled[i].value) \o <<"'">>], <<",", SP>>)
                 IN <<"INSERT INTO", SP, table, SP, "(">> \o cols \o <<")", NL, "VALUES", SP, "(">>
                      \o vals \o <<")", SEMI>>

LegacyBuildUpdate(table, pairs, conditions) ==
    IF table = "" THEN <<PH_TABLE>>
    ELSE LET filled == SelectSeq(pairs, HasColumn)
         IN IF Len(filled) = 0 THEN <<PH_UPDATE>>
            ELSE LET sets == Join([i \in 1..Len(filled) |->
                                     <<IND, filled[i].column, SP, "=", SP, "'">> \o Str(filled[i].value) \o <<"'">>],
                                  <<",", NL>>)
                 IN <<"UPDATE", SP, table, NL, "SET", NL>> \o sets \o LegacyWhere(conditions) \o <<SEMI>>

LegacyBuildDelete(table, conditions) ==
    IF table = "" THEN <<PH_TABLE>>
    ELSE <<"DELETE FROM", SP, table>> \o LegacyWhere(conditions) \o <<SEMI>>

\* the sql of the legacy page for the state a node holds: operation, table,
\* selectCols, pairs, conditions, joins, orderBy and limit
LegacySQL(node) ==
    CASE node.operation = "SELECT" ->
           LegacyBuildSelect(node.table, node.selectColumns, node.conditions, node.joins, node.orderBy, node.limit)
      [] node.operation = "INSERT" -> LegacyBuildInsert(node.table, node.pairs)
      [] node.operation = "UPDATE" -> LegacyBuildUpdate(node.table, node.pairs, node.conditions)
      [] node.operation = "DELETE" -> LegacyBuildDelete(node.table, node.conditions)

----------------------------------------------------------------------------
(* Inputs of buildSQL: well-formed QueryNodes, not only those the editor   *)
(* produces (imported documents reach buildSQL unvalidated); 99 is a       *)
(* subQueryId that resolves nowhere, InheritedKey one that no subQueries   *)
(* record holds                                                            *)

PairLists ==
    { <<>>,
      <<Pair(91, "", "")>>,
      <<Pair(91, "name", "Bo")>>,
      <<Pair(91, "", "x"), Pair(92, "a", "1"), Pair(93, "b", "")>> }

CondLists ==
    { <<>>,
      <<Cond(81, "id", "=", "5", "AND", Absent)>>,
      <<Cond(81, "", "LIKE", "", "OR", Undefined), Cond(82, "b", "IS NULL", "x", "OR", Absent)>>,
      <<Cond(81, "a", "IN", "1", "AND", 99), Cond(82, "c", "EXISTS", "", "AND", Absent)>>,
      <<Cond(81, "a", "NOT EXISTS", "v", "OR", 99), Cond(82, "", "IS NOT NULL", "", "AND", 99)>>,
      <<Cond(81, "a", "=", "1", "AND", InheritedKey)>> }

JoinLists ==
    { <<>>,
      <<JoinC(71, "LEFT", "t2", "", "t2.id"), JoinC(72, "FULL OUTER", "t3", "a.id", "t3.id")>> }

OrderLists ==
    { <<>>,
      <<Order(61, "", "ASC")>>,
      <<Order(61, "a", "ASC"), Order(62, "", "DESC"), Order(63, "b", "DESC")>> }

FlatNodes ==
    { Node(50, op, t, sc, ps, cs, js, os, l, NoSubQueries) :
        op \in SQLOperation, t \in {"", "users"}, sc \in {"", "*", "  ", " id "},
        ps \in PairLists, cs \in CondLists, js \in JoinLists, os \in OrderLists, l \in {"", "10"} }

\* the nodes at the bottom of a chain of subqueries
LeafNodes ==
    { n \in FlatNodes : /\ n.selectColumns = "*" /\ n.joins = <<>> /\ n.orderBy = <<>> /\ n.limit = ""
                        /\ Len(n.pairs) = 1
                        /\ (n.conditions = <<>> \/ (Len(n.conditions) = 2 /\ n.conditions[1].operator = "IN")) }

\* the nodes that carry the chain: each of the operations
OuterNodes ==
    { Node(0, op, "orders", "*", <<Pair(1, "n", "v")>>, cs, <<>>, <<>>, "", NoSubQueries) :
        op \in SQLOperation,
        cs \in { <<>>, <<Cond(2, "status", "IS NULL", "", "AND", Absent)>> } }

\* the operator and column of the condition that references the subquery
Links == { [operator |-> o, column |-> c] : o \in {"IN", "NOT EXISTS", "="}, c \in {"", "customer_id"} }

RECURSIVE Nest(_, _, _, _)
\* leaf under k levels of outer, each level referencing the next through link
Nest(leaf, k, outer, link) ==
    IF k = 0 THEN leaf
    ELSE [outer EXCEPT !.id = 100 + k,
            !.conditions = @ \o <<Cond(3, link.column, link.operator, "lit", "OR", 100 + k - 1)>>,
            !.subQueries = (100 + k - 1) :> [Nest(leaf, k - 1, outer, link) EXCEPT !.id = 100 + k - 1]]

\* Scenario E of the specification: SELECT on orders, status IS NULL
\* OR customer_id IN (SELECT id FROM vip_customers)
ScenarioE ==
    Node(1, "SELECT", "orders", "*", <<Pair(2, "", "")>>,
         <<Cond(3, "status", "IS NULL", "", "AND", Absent),
           Cond(4, "customer_id", "IN", "", "OR", 5)>>,
         <<>>, <<>>, "",
         5 :> Node(5, "SELECT", "vip_customers", "id", <<Pair(6, "", "")>>, <<>>, <<>>, <<>>, "", NoSubQueries))

\* a node with two subqueries, one under IN and one under EXISTS
Siblings ==
    { Node(0, op, "orders", "*", <<Pair(1, "n", "v")>>,
           <<Cond(2, "a", "IN", "", "AND", 5), Cond(3, "", "EXISTS", "", "OR", 6)>>,
           <<>>, <<>>, "",
           (5 :> Node(5, "SELECT", "vip", "id", <<>>, <<>>, <<>>, <<>>, "", NoSubQueries))
             @@ (6 :> Node(6, "DELETE", "old", "*", <<>>, <<Cond(7, "x", "=", "1", "AND", Absent)>>,
                           <<>>, <<>>, "", NoSubQueries))) :
        op \in SQLOperation }

InputNodes ==
    FlatNodes
      \cup Siblings
      \cup { Nest(leaf, k, outer, link) : leaf \in LeafNodes, k \in 1..MaxNest, outer \in OuterNodes, link \in Links }
      \cup {ScenarioE}

----------------------------------------------------------------------------
(* The generator applied to an arbitrary input: a call buildSQL(root, depth) *)

InitCompile ==
    /\ root \in InputNodes
    /\ depth \in 0..MaxDepthArg
    /\ sql = <<>>
    /\ pc = "call"
    /\ steps = 0
    /\ queryName = "my_query"
    /\ toast = NoToast
    /\ download = NoFile
    /\ reading = <<>>

\* a call that drops the entries it does not render from the node itself
CompilePruning ==
    /\ pc = "call"
    /\ sql' = BuildSQL(root, depth)
    /\ root' = [root EXCEPT !.pairs = SelectSeq(@, HasColumn),
                            !.joins = SelectSeq(@, JoinRenders),
                            !.orderBy = SelectSeq(@, HasColumn)]
    /\ pc' = "return"
    /\ UNCHANGED <<depth, steps, pageVars>>

Compile ==
    /\ pc = "call"
    /\ sql' = BuildSQL(root, depth)
    /\ pc' = "return"
    /\ UNCHANGED <<root, depth, steps, pageVars>>

NextCompile == Compile

SpecCompile == InitCompile /\ [][NextCompile]_vars

----------------------------------------------------------------------------
(* query-node-editor: the operations of one QueryNodeEditor on its node    *)

MAX_DEPTH == 3

\* a function without the key k (delete sqs[k])
Without(f, k) == [x \in DOMAIN f \ {k} |-> f[x]]

\* { ...f, [k]: v }
With(f, k, v) == [x \in DOMAIN f \cup {k} |-> IF x = k THEN v ELSE f[x]]

\* arr.filter((e) => e.id !== id)
RemoveById(arr, id) == LET keep(e) == e.id # id IN SelectSeq(arr, keep)

\* arr.find((e) => e.id === id), for an id that occurs in arr
FindById(arr, id) == arr[CHOOSE i \in 1..Len(arr) : arr[i].id = id /\ \A j \in 1..(i - 1) : arr[j].id # id]

AddPair(node, newId) == [node EXCEPT !.pairs = @ \o <<Pair(newId, "", "")>>]

RemovePair(node, id) == [node EXCEPT !.pairs = RemoveById(@, id)]

UpdatePair(node, id, field, v) ==
    [node EXCEPT !.pairs = [i \in 1..Len(@) |-> IF @[i].id = id THEN [@[i] EXCEPT ![field] = v] ELSE @[i]]]

AddCondition(node, newId) ==
    [node EXCEPT !.conditions = @ \o <<Cond(newId, "", "=", "", "AND", Absent)>>]


\* removeCondition without the clean-up of the subquery of the condition
RemoveConditionNoCleanup(node, id) == [node EXCEPT !.conditions = RemoveById(@, id)]

RemoveCondition(node, id) ==
    LET cond == FindById(node.conditions, id)
        updated == [node EXCEPT !.conditions = RemoveById(@, id)]
    IN IF Truthy(cond.subQueryId)
       THEN [updated EXCEPT !.subQueries = Without(@, cond.subQueryId)]
       ELSE updated

UpdateCondition(node, id, field, v) ==
    [node EXCEPT !.conditions = [i \in 1..Len(@) |-> IF @[i].id = id THEN [@[i] EXCEPT ![field] = v] ELSE @[i]]]

\* attachSubQuery handing the new subquery to every condition of the node
AttachSubQueryAllConditions(node, condId, sq) ==
    [node EXCEPT !.conditions = [i \in 1..Len(@) |-> [@[i] EXCEPT !.subQueryId = sq.id]],
                 !.subQueries = With(@, sq.id, sq)]

AttachSubQuery(node, condId, sq) ==
    [node EXCEPT !.conditions = [i \in 1..Len(@) |->
                                   IF @[i].id = condId THEN [@[i] EXCEPT !.subQueryId = sq.id] ELSE @[i]],
                 !.subQueries = With(@, sq.id, sq)]

\* detachSubQuery leaving the subQueryId of the condition in place
DetachSubQueryKeepId(node, condId, sqId) ==
    [node EXCEPT !.conditions = [i \in 1..Len(@) |->
                                   IF @[i].id = condId THEN [@[i] EXCEPT !.value = ""] ELSE @[i]],
                 !.subQueries = Without(@, sqId)]

\* detachSubQuery without the delete of the entry
DetachSubQueryKeepEntry(node, condId, sqId) ==
    [node EXCEPT !.conditions = [i \in 1..Len(@) |->
                                   IF @[i].id = condId
                                   THEN [@[i] EXCEPT !.subQueryId = Undefined, !.value = ""] ELSE @[i]]]

DetachSubQuery(node, condId, sqId) ==
    [node EXCEPT !.conditions = [i \in 1..Len(@) |->
                                   IF @[i].id = condId
                                   THEN [@[i] EXCEPT !.subQueryId = Undefined, !.value = ""] ELSE @[i]],
                 !.subQueries = Without(@, sqId)]

\* updateSubQuery without the spread of the other entries
UpdateSubQueryAlone(node, sqId, updated) ==
    [node EXCEPT !.subQueries = [x \in {sqId} |-> updated]]

UpdateSubQuery(node, sqId, updated) == [node EXCEPT !.subQueries = With(@, sqId, updated)]

AddJoin(node, newId) == [node EXCEPT !.joins = @ \o <<JoinC(newId, "INNER", "", "", "")>>]

RemoveJoin(node, id) == [node EXCEPT !.joins = RemoveById(@, id)]

UpdateJoin(node, id, field, v) ==
    [node EXCEPT !.joins = [i \in 1..Len(@) |-> IF @[i].id = id THEN [@[i] EXCEPT ![field] = v] ELSE @[i]]]

AddOrderBy(node, newId) == [node EXCEPT !.orderBy = @ \o <<Order(newId, "", "ASC")>>]

RemoveOrderBy(node, id) == [node EXCEPT !.orderBy = RemoveById(@, id)]

UpdateOrderBy(node, id, field, v) ==
    [node EXCEPT !.orderBy = [i \in 1..Len(@) |-> IF @[i].id = id THEN [@[i] EXCEPT ![field] = v] ELSE @[i]]]


\* canNest with <= in place of <
CanNestInclusive(d) == d <= MAX_DEPTH

CanNest(d) == d < MAX_DEPTH

\* onChange of the operator select of condition cond, in an editor at depth d
OperatorChange(node, d, cond, op, sq) ==
    IF op \in SUBQUERY_OPERATORS /\ CanNest(d) /\ ~Truthy(cond.subQueryId)
    THEN [node EXCEPT !.conditions = [i \in 1..Len(@) |->
                                        IF @[i].id = cond.id
                                        THEN [@[i] EXCEPT !.operator = op, !.subQueryId = sq.id] ELSE @[i]],
                      !.subQueries = With(@, sq.id, sq)]
    ELSE UpdateCondition(node, cond.id, "operator", op)

----------------------------------------------------------------------------
(* The tree of editors: the root editor at depth 0 and, under every        *)
(* condition whose subquery resolves, a nested editor one level deeper     *)

\* the subqueries of node for which a nested editor is rendered (the
\* clause tabs, and the nested editors in them, are hidden for INSERT)
RenderedSubQueries(node) ==
    IF node.operation = "INSERT" THEN {}
    ELSE { node.conditions[i].subQueryId : i \in { j \in 1..Len(node.conditions) :
             /\ Truthy(node.conditions[j].subQueryId)
             /\ node.conditions[j].subQueryId \in DOMAIN node.subQueries } }

RECURSIVE EditorPaths(_)
\* the editors on screen, each named by the subquery ids leading to its node
EditorPaths(node) ==
    {<<>>} \cup UNION { { <<k>> \o p : p \in EditorPaths(node.subQueries[k]) } : k \in RenderedSubQueries(node) }

RECURSIVE NodeAt(_, _)
NodeAt(node, path) == IF path = <<>> THEN node ELSE NodeAt(node.subQueries[Head(path)], Tail(path))

RECURSIVE OnChange(_, _, _)
\* onChange(updated) of the editor at path: every ancestor rebuilds itself
\* through updateSubQuery, and the outermost hands the new root to setRoot
OnChange(node, path, updated) ==
    IF path = <<>> THEN updated
    ELSE UpdateSubQuery(node, Head(path), OnChange(node.subQueries[Head(path)], Tail(path), updated))

RECURSIVE UsedIds(_)
\* every id held by the document
UsedIds(node) ==
    {node.id}
      \cup {node.pairs[i].id : i \in 1..Len(node.pairs)}
      \cup {node.conditions[i].id : i \in 1..Len(node.conditions)}
      \cup {node.joins[i].id : i \in 1..Len(node.joins)}
      \cup {node.orderBy[i].id : i \in 1..Len(node.orderBy)}
      \cup DOMAIN node.subQueries
      \cup UNION {UsedIds(node.subQueries[k]) : k \in DOMAIN node.subQueries}

\* genId(): the unique-id source, an id that no entity of the document holds
GenId(used) == CHOOSE i \in 1..(Cardinality(used) + 1) : i \notin used /\ \A j \in 1..(i - 1) : j \in used

\* makeEmptyNode("SELECT") for a document that holds the ids of used
NewSubQuery(used) == MakeEmptyNode("SELECT", GenId(used), GenId(used \cup {GenId(used)}))

----------------------------------------------------------------------------
(* The page: SQLGeneratorPage holds root, renders the tree of editors and  *)
(* shows sql = buildSQL(root, 0) on every render                           *)

\* what the user types into a text field
Texts == {"", "t"}

SelectTexts == {"*", "", "id"}

LimitTexts == {"", "10"}

JoinTypes == {"INNER", "LEFT", "RIGHT", "FULL OUTER"}

Directions == {"ASC", "DESC"}

UnaryOperators == {"IS NULL", "IS NOT NULL", "EXISTS", "NOT EXISTS"}

EmptyRoot == MakeEmptyNode("SELECT", 1, 2)

\* the editor at path hands updated to its onChange; the page re-renders
Commit(path, updated) ==
    /\ steps < MaxSteps
    /\ root' = OnChange(root, path, updated)
    /\ sql' = BuildSQL(root', 0)
    /\ steps' = steps + 1
    /\ UNCHANGED <<depth, pc, pageVars>>

ClickOperation ==
    /\ pc = "render"
    /\ steps < MaxSteps
    /\ \E path \in EditorPaths(root), op \in SQLOperation :
         LET node == NodeAt(root, path)
         IN /\ op # node.operation
            /\ Commit(path, [node EXCEPT !.operation = op])

TypeTable ==
    /\ pc = "render"
    /\ steps < MaxSteps
    /\ \E path \in EditorPaths(root), v \in Texts :
         LET node == NodeAt(root, path)
         IN /\ v # node.table
            /\ Commit(path, [node EXCEPT !.table = v])

TypeSelectColumns ==
    /\ pc = "render"
    /\ steps < MaxSteps
    /\ \E path \in EditorPaths(root), v \in SelectTexts :
         LET node == NodeAt(root, path)
         IN /\ node.operation = "SELECT"
            /\ v # node.selectColumns
            /\ Commit(path, [node EXCEPT !.selectColumns = v])

TypeLimit ==
    /\ pc = "render"
    /\ steps < MaxSteps
    /\ \E path \in EditorPaths(root), v \in LimitTexts :
         LET node == NodeAt(root, path)
         IN /\ node.operation # "INSERT"
            /\ v # node.limit
            /\ Commit(path, [node EXCEPT !.limit = v])

ClickAddPair ==
    /\ pc = "render"
    /\ steps < MaxSteps
    /\ \E path \in EditorPaths(root) :
         LET node == NodeAt(root, path)
         IN /\ node.operation \in {"INSERT", "UPDATE"}
            /\ Commit(path, AddPair(node, GenId(UsedIds(root))))

ClickRemovePair ==
    /\ pc = "render"
    /\ steps < MaxSteps
    /\ \E path \in EditorPaths(root) :
         LET node == NodeAt(root, path)
         IN /\ node.operation \in {"INSERT", "UPDATE"}
            /\ \E i \in 1..Len(node.pairs) : Commit(path, RemovePair(node, node.pairs[i].id))

TypePair ==
    /\ pc = "render"
    /\ steps < MaxSteps
    /\ \E path \in EditorPaths(root), field \in {"column", "value"}, v \in Texts :
         LET node == NodeAt(root, path)
         IN /\ node.operation \in {"INSERT", "UPDATE"}
            /\ \E i \in 1..Len(node.pairs) :
                 /\ v # node.pairs[i][field]
                 /\ Commit(path, UpdatePair(node, node.pairs[i].id, field, v))

ClickAddCondition ==
    /\ pc = "render"
    /\ steps < MaxSteps
    /\ \E path \in EditorPaths(root) :
         LET node == NodeAt(root, path)
         IN /\ node.operation # "INSERT"
            /\ Commit(path, AddCondition(node, GenId(UsedIds(root))))

ClickRemoveCondition ==
    /\ pc = "render"
    /\ steps < MaxSteps
    /\ \E path \in EditorPaths(root) :
         LET node == NodeAt(root, path)
         IN /\ node.operation # "INSERT"
            /\ \E i \in 1..Len(node.conditions) : Commit(path, RemoveCondition(node, node.conditions[i].id))

SelectLogic ==
    /\ pc = "render"
    /\ steps < MaxSteps
    /\ \E path \in EditorPaths(root), v \in LogicGate :
         LET node == NodeAt(root, path)
         IN /\ node.operation # "INSERT"
            /\ \E i \in 2..Len(node.conditions) :
                 /\ v # node.conditions[i].logic
                 /\ Commit(path, UpdateCondition(node, node.conditions[i].id, "logic", v))

TypeConditionColumn ==
    /\ pc = "render"
    /\ steps < MaxSteps
    /\ \E path \in EditorPaths(root), v \in Texts :
         LET node == NodeAt(root, path)
         IN /\ node.operation # "INSERT"
            /\ \E i \in 1..Len(node.conditions) :
                 /\ node.conditions[i].operator \notin {"EXISTS", "NOT EXISTS"}
                 /\ v # node.conditions[i].column
                 /\ Commit(path, UpdateCondition(node, node.conditions[i].id, "column", v))

TypeConditionValue ==
    /\ pc = "render"
    /\ steps < MaxSteps
    /\ \E path \in EditorPaths(root), v \in Texts :
         LET node == NodeAt(root, path)
         IN /\ node.operation # "INSERT"
            /\ \E i \in 1..Len(node.conditions) :
                 /\ node.conditions[i].operator \notin UnaryOperators
                 /\ ~Truthy(node.conditions[i].subQueryId)
                 /\ v # node.conditions[i].value
                 /\ Commit(path, UpdateCondition(node, node.conditions[i].id, "value", v))

SelectOperator ==
    /\ pc = "render"
    /\ steps < MaxSteps
    /\ \E path \in EditorPaths(root), op \in OPERATORS :
         LET node == NodeAt(root, path)
         IN /\ node.operation # "INSERT"
            /\ \E i \in 1..Len(node.conditions) :
                 /\ op # node.conditions[i].operator
                 /\ Commit(path, OperatorChange(node, Len(path), node.conditions[i], op, NewSubQuery(UsedIds(root))))

\* the subquery toggle button of a condition
ClickToggleSubQuery ==
    /\ pc = "render"
    /\ steps < MaxSteps
    /\ \E path \in EditorPaths(root) :
         LET node == NodeAt(root, path)
         IN /\ node.operation # "INSERT"
            /\ CanNest(Len(path))
            /\ \E i \in 1..Len(node.conditions) :
                 LET cond == node.conditions[i]
                 IN /\ cond.operator \notin UnaryOperators
                    /\ Commit(path, IF Truthy(cond.subQueryId)
                                    THEN DetachSubQuery(node, cond.id, cond.subQueryId)
                                    ELSE AttachSubQuery(node, cond.id, NewSubQuery(UsedIds(root))))

\* the Remove button in the header of a nested editor (its onRemove)
ClickRemoveSubQuery ==
    /\ pc = "render"
    /\ steps < MaxSteps
    /\ \E path \in EditorPaths(root) :
         LET node == NodeAt(root, path)
         IN /\ node.operation # "INSERT"
            /\ \E i \in 1..Len(node.conditions) :
                 LET cond == node.conditions[i]
                 IN /\ Truthy(cond.subQueryId)
                    /\ cond.subQueryId \in DOMAIN node.subQueries
                    /\ Commit(path, DetachSubQuery(node, cond.id, cond.subQueryId))

ClickAddJoin ==
    /\ pc = "render"
    /\ steps < MaxSteps
    /\ \E path \in EditorPaths(root) :
         LET node == NodeAt(root, path)
         IN /\ node.operation # "INSERT"
            /\ Commit(path, AddJoin(node, GenId(UsedIds(root))))

ClickRemoveJoin ==
    /\ pc = "render"
    /\ steps < MaxSteps
    /\ \E path \in EditorPaths(root) :
         LET node == NodeAt(root, path)
         IN /\ node.operation # "INSERT"
            /\ \E i \in 1..Len(node.joins) : Commit(path, RemoveJoin(node, node.joins[i].id))

EditJoin ==
    /\ pc = "render"
    /\ steps < MaxSteps
    /\ \E path \in EditorPaths(root), field \in {"type", "table", "onLeft", "onRight"}, v \in Texts \cup JoinTypes :
         LET node == NodeAt(root, path)
         IN /\ node.operation # "INSERT"
            /\ (field = "type") = (v \in JoinTypes)
            /\ \E i \in 1..Len(node.joins) :
                 /\ v # node.joins[i][field]
                 /\ Commit(path, UpdateJoin(node, node.joins[i].id, field, v))

ClickAddOrderBy ==
    /\ pc = "render"
    /\ steps < MaxSteps
    /\ \E path \in EditorPaths(root) :
         LET node == NodeAt(root, path)
         IN /\ node.operation # "INSERT"
            /\ Commit(path, AddOrderBy(node, GenId(UsedIds(root))))

ClickRemoveOrderBy ==
    /\ pc = "render"
    /\ steps < MaxSteps
    /\ \E path \in EditorPaths(root) :
         LET node == NodeAt(root, path)
         IN /\ node.operation # "INSERT"
            /\ \E i \in 1..Len(node.orderBy) : Commit(path, RemoveOrderBy(node, node.orderBy[i].id))

EditOrderBy ==
    /\ pc = "render"
    /\ steps < MaxSteps
    /\ \E path \in EditorPaths(root), field \in {"column", "direction"}, v \in Texts \cup Directions :
         LET node == NodeAt(root, path)
         IN /\ node.operation # "INSERT"
            /\ (field = "direction") = (v \in Directions)
            /\ \E i \in 1..Len(node.orderBy) :
                 /\ v # node.orderBy[i][field]
                 /\ Commit(path, UpdateOrderBy(node, node.orderBy[i].id, field, v))

\* handleReset without the reset of the query name
HandleResetKeepName ==
    /\ pc = "render"
    /\ steps < MaxSteps
    /\ root' = EmptyRoot
    /\ sql' = BuildSQL(root', 0)
    /\ steps' = steps + 1
    /\ UNCHANGED <<depth, pc, queryName, toast, download, reading>>

HandleReset ==
    /\ pc = "render"
    /\ steps < MaxSteps
    /\ root' = EmptyRoot
    /\ sql' = BuildSQL(root', 0)
    /\ steps' = steps + 1
    /\ queryName' = "my_query"
    /\ UNCHANGED <<depth, pc, toast, download, reading>>

\* the document after one more round of "add a condition to the innermost
\* node, then give it a subquery": by the toggle button (how = "toggle")
\* or by selecting the operator how
RECURSIVE InnermostPath(_)
InnermostPath(node) ==
    IF RenderedSubQueries(node) = {} THEN <<>>
    ELSE LET k == CHOOSE x \in RenderedSubQueries(node) : TRUE IN <<k>> \o InnermostPath(node.subQueries[k])

Nested(r, how) ==
    LET path == InnermostPath(r)
        n1 == AddCondition(NodeAt(r, path), GenId(UsedIds(r)))
        r1 == OnChange(r, path, n1)
        cond == n1.conditions[Len(n1.conditions)]
        sq == NewSubQuery(UsedIds(r1))
        n2 == IF how = "toggle" THEN AttachSubQuery(n1, cond.id, sq)
              ELSE OperatorChange(n1, Len(path), cond, how, sq)
    IN OnChange(r1, path, n2)

RECURSIVE Chain(_, _)
\* the empty root after k such rounds
Chain(k, how) == IF k = 0 THEN EmptyRoot ELSE Nested(Chain(k - 1, how), how)

\* the document of k rounds of nesting after Add condition and the subquery
\* toggle at the root: the root then holds two subqueries side by side
Forked(k) ==
    LET r == Chain(k, "toggle")
        n1 == AddCondition(r, GenId(UsedIds(r)))
    IN AttachSubQuery(n1, Last(n1.conditions).id, NewSubQuery(UsedIds(n1)))

\* The session starts at the empty root.  The documents explored are those
\* within MaxSteps operations of the empty root or of a document that k
\* rounds of nesting lead to from it, k up to MAX_DEPTH.
InitEditor ==
    /\ root \in { Chain(k, how) : k \in 0..MAX_DEPTH, how \in {"toggle", "EXISTS"} }
                  \cup { Forked(2) }
    /\ depth = 0
    /\ sql = BuildSQL(root, 0)
    /\ pc = "render"
    /\ steps = 0
    /\ queryName = "my_query"
    /\ toast = NoToast
    /\ download = NoFile
    /\ reading = <<>>

NextEditor ==
    \/ ClickOperation
    \/ TypeTable
    \/ TypeSelectColumns
    \/ TypeLimit
    \/ ClickAddPair
    \/ ClickRemovePair
    \/ TypePair
    \/ ClickAddCondition
    \/ ClickRemoveCondition
    \/ SelectLogic
    \/ TypeConditionColumn
    \/ TypeConditionValue
    \/ SelectOperator
    \/ ClickToggleSubQuery
    \/ ClickRemoveSubQuery
    \/ ClickAddJoin
    \/ ClickRemoveJoin
    \/ EditJoin
    \/ ClickAddOrderBy
    \/ ClickRemoveOrderBy
    \/ EditOrderBy
    \/ HandleReset

Spec == InitEditor /\ [][NextEditor]_vars

----------------------------------------------------------------------------
(* page: export, import, query name, toast                                 *)

\* Values of JavaScript as JSON.parse returns them, by kind
JUndefined == [t |-> "undefined"]

JNull == [t |-> "null"]

JNumber == [t |-> "number"]

JArray == [t |-> "array"]

JString(s) == [t |-> "string", str |-> s]

JObject(o) == [t |-> "object", obj |-> o]

\* typeof v
TypeOf(v) == IF v.t \in {"null", "array", "object"} THEN "object" ELSE v.t

\* v[key]: undefined unless v is an object that has the key
Prop(v, key) == IF v.t = "object" /\ key \in DOMAIN v.obj THEN v.obj[key] ELSE JUndefined

\* the value of $schema of this version
SCHEMA == "sql-forge/visual-query/v1"

\* isValidSchema accepting any $schema
IsValidSchemaAnySchema(data) ==
    IF TypeOf(data) # "object" \/ data = JNull THEN FALSE
    ELSE /\ TypeOf(Prop(data, "schema")) = "string"
         /\ TypeOf(Prop(data, "root")) = "object"
         /\ Prop(data, "root") # JNull

\* isValidSchema; the key $schema is written schema
IsValidSchema(data) ==
    IF TypeOf(data) # "object" \/ data = JNull THEN FALSE
    ELSE /\ Prop(data, "schema") = JString(SCHEMA)
         /\ TypeOf(Prop(data, "root")) = "object"
         /\ Prop(data, "root") # JNull

RECURSIVE DropUndefined(_)
\* JSON.stringify of a node as JSON.parse reads it back: a property whose
\* value is undefined is not written, every other property is kept
DropUndefined(node) ==
    [node EXCEPT
       !.conditions = [i \in 1..Len(@) |->
                         IF @[i].subQueryId = Undefined THEN [@[i] EXCEPT !.subQueryId = Absent] ELSE @[i]],
       !.subQueries = [k \in DOMAIN @ |-> DropUndefined(@[k])]]

\* (queryName || "my_query")
NameOrDefault(name) == IF name = "" THEN "my_query" ELSE name

\* replace(/\s+/g, "_") on the names of the model
Underscored(name) == IF name = "my query" THEN "my_query" ELSE name

\* the file handleExport writes: its name without the ending .sqlforge.json,
\* and the JSON text by the value it parses to
ExportFile(node, name) ==
    [name |-> Underscored(NameOrDefault(name)),
     text |-> "json",
     value |-> JObject([schema |-> JString(SCHEMA),
                        meta |-> JObject([name |-> JString(NameOrDefault(name)),
                                          createdAt |-> JString("now"),
                                          updatedAt |-> JString("now")]),
                        root |-> JObject(DropUndefined(node))])]

\* a file that is no JSON text
NotJSON == [name |-> "notes", text |-> "garbage"]

JsonFile(v) == [name |-> "other", text |-> "json", value |-> v]

\* a document of another session
ForeignNode ==
    Node(301, "DELETE", "logs", "*", <<>>, <<Cond(302, "id", "IN", "", "AND", 303)>>, <<>>, <<>>, "",
         303 :> Node(303, "SELECT", "old", "id", <<>>, <<>>, <<>>, <<>>, "", NoSubQueries))

\* an object that is no QueryNode
EmptyObject == [empty |-> TRUE]

IsQueryNode(v) == "operation" \in DOMAIN v

\* the files the user can pick besides the exported one
ForeignFiles ==
    {NotJSON, JsonFile(JNull), JsonFile(JNumber), JsonFile(JArray)}
      \cup { JsonFile(JObject([schema |-> sc, meta |-> m, root |-> r])) :
               sc \in {JString(SCHEMA), JString("sql-forge/visual-query/v2"), JUndefined},
               m \in {JUndefined, JObject([name |-> JString("q")])},
               r \in {JUndefined, JNull, JString("x"), JArray, JObject(EmptyObject), JObject(ForeignNode)} }

\* at most this many files are being read at a time
MaxReads == 1

\* the names typed into the query name input
QueryNames == {"", "q", "my query"}

\* the object setRoot receives
RootOf(v) == IF v.t = "object" THEN v.obj ELSE EmptyObject

\* raw.meta?.name ?? fallback
MetaNameOr(raw, fallback) ==
    LET name == Prop(Prop(raw, "meta"), "name")
    IN IF name.t = "string" THEN name.str ELSE fallback

RemoveAt(seq, i) == SubSeq(seq, 1, i - 1) \o SubSeq(seq, i + 1, Len(seq))

TypeQueryName ==
    /\ pc = "render"
    /\ steps < MaxSteps
    /\ \E name \in QueryNames :
         /\ name # queryName
         /\ queryName' = name
    /\ steps' = steps + 1
    /\ UNCHANGED <<root, depth, sql, pc, toast, download, reading>>

HandleExport ==
    /\ pc = "render"
    /\ steps < MaxSteps
    /\ download' = ExportFile(root, queryName)
    /\ toast' = Toast("success", <<"Query exported successfully">>)
    /\ steps' = steps + 1
    /\ UNCHANGED <<root, depth, sql, pc, queryName, reading>>

\* the user picks a file; a FileReader starts reading it
HandleImportFile ==
    /\ pc = "render"
    /\ steps < MaxSteps
    /\ Len(reading) < MaxReads
    /\ \E file \in ForeignFiles \cup ({download} \ {NoFile}) :
         reading' = Append(reading, file)
    /\ steps' = steps + 1
    /\ UNCHANGED <<root, depth, sql, pc, queryName, toast, download>>

\* reader.onload of one of the files being read; the page renders the new
\* root, and the render raises a TypeError on a root that is no QueryNode
ReaderOnload ==
    /\ pc = "render"
    /\ \E i \in 1..Len(reading) :
         LET file == reading[i]
         IN /\ reading' = RemoveAt(reading, i)
            /\ IF file.text # "json"
               THEN /\ toast' = Toast("error", <<"Failed to parse JSON file">>)
                    /\ UNCHANGED <<root, sql, pc, queryName>>
               ELSE IF ~IsValidSchema(file.value)
               THEN /\ toast' = Toast("error", <<"Invalid file: not a SQL Forge query">>)
                    /\ UNCHANGED <<root, sql, pc, queryName>>
               ELSE /\ root' = RootOf(Prop(file.value, "root"))
                    /\ queryName' = MetaNameOr(file.value, "my_query")
                    /\ toast' = Toast("success", <<"Loaded", MetaNameOr(file.value, file.name)>>)
                    /\ IF IsQueryNode(root')
                       THEN sql' = BuildSQL(root', 0) /\ pc' = "render"
                       ELSE sql' = <<THROW>> /\ pc' = "crashed"
    /\ UNCHANGED <<depth, steps, download>>

\* the timer of showToast, three seconds later
ToastTimeout ==
    /\ pc = "render"
    /\ toast # NoToast
    /\ toast' = NoToast
    /\ UNCHANGED <<root, depth, sql, pc, steps, queryName, download, reading>>

\* a document with a condition whose subquery was detached: the innermost
\* subquery of a chain is removed by its remove button
Detached(k) ==
    LET r == Chain(k, "toggle")
        path == InnermostPath(r)
        parentPath == SubSeq(path, 1, Len(path) - 1)
        parent == NodeAt(r, parentPath)
        cond == parent.conditions[CHOOSE i \in 1..Len(parent.conditions) :
                                    parent.conditions[i].subQueryId = Last(path)]
    IN OnChange(r, parentPath, DetachSubQuery(parent, cond.id, cond.subQueryId))

InitPage ==
    /\ root \in { Chain(k, how) : k \in 0..MAX_DEPTH, how \in {"toggle", "EXISTS"} }
                  \cup { Detached(k) : k \in 1..MAX_DEPTH }
    /\ depth = 0
    /\ sql = BuildSQL(root, 0)
    /\ pc = "render"
    /\ steps = 0
    /\ queryName = "my_query"
    /\ toast = NoToast
    /\ download = NoFile
    /\ reading = <<>>

NextPage ==
    \/ NextEditor
    \/ TypeQueryName
    \/ HandleExport
    \/ HandleImportFile
    \/ ReaderOnload
    \/ ToastTimeout

SpecPage == InitPage /\ [][NextPage]_vars

----------------------------------------------------------------------------
(* Vocabulary of the properties                                            *)

\* sub occurs in t as a contiguous piece of text
Contains(t, sub) == \E i \in 1..(Len(t) - Len(sub) + 1) : SubSeq(t, i, i + Len(sub) - 1) = sub

\* tokens that print as white space only
Blank == {IND, SP}

RECURSIVE StripLeading(_)
\* a line without its leading white space
StripLeading(line) ==
    IF line # <<>> /\ Head(line) \in Blank THEN StripLeading(Tail(line)) ELSE line

\* the lines of a text, each without its leading white space
StrippedLines(t) == LET ls == Split(t) IN [i \in 1..Len(ls) |-> StripLeading(ls[i])]

Placeholders == {PH_TABLE, PH_INSERT, PH_UPDATE}

\* the text is one of the three comment placeholders, possibly indented
IsPlaceholder(t) ==
    /\ Len(t) >= 1
    /\ Last(t) \in Placeholders
    /\ \A i \in 1..(Len(t) - 1) : t[i] = IND

\* every line of t preceded by n two-space units
PrefixLines(t, n) ==
    LET ls == Split(t) IN Join([i \in 1..Len(ls) |-> Repeat(n) \o ls[i]], <<NL>>)

RECURSIVE Height(_)
\* number of subquery levels below node (entries of subQueries, referenced or not)
Height(node) ==
    IF DOMAIN node.subQueries = {} THEN 0
    ELSE LET hs == {Height(node.subQueries[k]) : k \in DOMAIN node.subQueries}
         IN 1 + CHOOSE h \in hs : \A g \in hs : g <= h

\* a condition of node whose subQueryId is set but does not resolve
HasDangling(node) ==
    \E i \in 1..Len(node.conditions) :
        /\ Truthy(node.conditions[i].subQueryId)
        /\ node.conditions[i].subQueryId \notin DOMAIN node.subQueries

RECURSIVE DanglingBelow(_)
DanglingBelow(node) ==
    HasDangling(node) \/ \E k \in DOMAIN node.subQueries : DanglingBelow(node.subQueries[k])

NoFilledPair(node) == \A i \in 1..Len(node.pairs) : node.pairs[i].column = ""

\* the column as buildWhereClause shows it: the word column for an empty one
ShownColumn(c) == IF c.column = "" THEN "column" ELSE c.column

----------------------------------------------------------------------------
(* Properties of the documents the editor produces (Spec)                  *)

RECURSIVE Levels(_, _)
\* every node of the tree under node with its level, node itself being at level d
Levels(node, d) ==
    {[node |-> node, level |-> d]}
      \cup UNION {Levels(node.subQueries[k], d + 1) : k \in DOMAIN node.subQueries}

\* the conditions of node that reference the subquery k
Referrers(node, k) == {i \in 1..Len(node.conditions) : node.conditions[i].subQueryId = k}

\* C1: in every node of the tree, every key of subQueries is referenced by
\* exactly one condition of that node; no orphaned subquery entry exists.
C1_NoOrphan ==
    pc = "render"
        => \A e \in Levels(root, 0) :
             \A k \in DOMAIN e.node.subQueries : Cardinality(Referrers(e.node, k)) = 1

\* a nested node that lost its subquery through a detach, under a parent
\* that still owns it
C1_Witness ==
    /\ pc = "render"
    /\ steps > 0
    /\ \E e \in Levels(root, 0) :
         /\ e.level >= 1
         /\ e.node.subQueries = NoSubQueries
         /\ \E i \in 1..Len(e.node.conditions) : e.node.conditions[i].subQueryId = Undefined

\* C2: no node lies more than MAX_DEPTH = 3 levels below the root; in an
\* editor at depth 3 neither the toggle button nor the selection of a
\* subquery operator adds an entry to subQueries.
C2_DepthCap ==
    pc = "render"
        => \A e \in Levels(root, 0) :
             /\ e.level <= 3
             /\ e.level = 3 => e.node.subQueries = NoSubQueries

\* a subquery operator was selected on a condition at depth 3
C2_Witness ==
    /\ pc = "render"
    /\ steps > 0
    /\ \E e \in Levels(root, 0) :
         /\ e.level = 3
         /\ \E i \in 1..Len(e.node.conditions) :
              /\ e.node.conditions[i].operator \in SUBQUERY_OPERATORS
              /\ ~Truthy(e.node.conditions[i].subQueryId)

----------------------------------------------------------------------------
(* Properties of buildSQL (SpecCompile)                                    *)

\* C3: buildSQL is total: on every well-formed node (any operation, any
\* nesting, unresolved subQueryId included) and depth it returns text and
\* raises nothing.  (Refuted by a condition whose subQueryId is an
\* InheritedKey.)
C3_Total ==
    pc = "return" => /\ Len(sql) >= 1
                     /\ \A i \in 1..Len(sql) : sql[i] # THROW

\* C4: with an empty table the output is exactly the table placeholder,
\* indented by depth units for SELECT/UPDATE/DELETE and unindented for
\* INSERT, whatever the other fields hold, and without a semicolon.
C4_TablePlaceholder ==
    pc = "return" /\ root.table = ""
        => sql = (IF root.operation = "INSERT" THEN <<>> ELSE Repeat(depth)) \o <<PH_TABLE>>

C4_Witness ==
    /\ pc = "return"
    /\ root.table = ""
    /\ root.operation = "UPDATE"
    /\ NoFilledPair(root)
    /\ root.conditions # <<>>
    /\ root.limit # ""
    /\ depth = 2

\* C5 as stated: with a table and no filled pair, INSERT and UPDATE both
\* return their placeholder at the node's indent.
C5_AtNodeIndent ==
    pc = "return" /\ root.table # "" /\ NoFilledPair(root) /\ root.operation \in {"INSERT", "UPDATE"}
        => sql = Repeat(depth) \o <<IF root.operation = "INSERT" THEN PH_INSERT ELSE PH_UPDATE>>

\* C5 (amended): with a table and no filled pair, UPDATE returns its
\* placeholder at the node's indent and INSERT returns its placeholder with
\* no indent, whatever the depth; no statement text is produced.
C5_Emptiness ==
    pc = "return" /\ root.table # "" /\ NoFilledPair(root)
        => /\ root.operation = "INSERT" => sql = <<PH_INSERT>>
           /\ root.operation = "UPDATE" => sql = Repeat(depth) \o <<PH_UPDATE>>

C5_Witness ==
    /\ pc = "return"
    /\ root.table # ""
    /\ root.operation = "INSERT"
    /\ Len(root.pairs) > 0
    /\ NoFilledPair(root)
    /\ depth = 2

\* C6: an output that is not a placeholder ends with the semicolon (so it
\* has no trailing newline); a placeholder output does not end with one.
C6_Terminator ==
    pc = "return"
        => IF IsPlaceholder(sql)
           THEN Last(sql) # SEMI
           ELSE Last(sql) = SEMI /\ Last(Split(sql)) # <<>>

C6_Witness ==
    /\ pc = "return"
    /\ ~IsPlaceholder(sql)
    /\ root.operation = "DELETE"
    /\ Len(Split(sql)) > 3

\* C7: Scenario E compiled at depth 0 contains, up to the indentation of its
\* lines, WHERE status IS NULL / OR customer_id IN ( / SELECT id /
\* FROM vip_customers / );
ScenarioEText ==
    << <<"WHERE", SP, "status", SP, "IS NULL">>,
       <<"OR", SP, "customer_id", SP, "IN", SP, "(">>,
       <<"SELECT", SP, "id">>,
       <<"FROM", SP, "vip_customers">>,
       <<")", SEMI>> >>

C7_ScenarioE ==
    pc = "return" /\ root = ScenarioE /\ depth = 0
        => Contains(StrippedLines(sql), ScenarioEText)

\* C8: a condition with operator IN and a resolvable subquery renders as
\* the column, IN, an opening parenthesis, a newline, the lines of the child
\* compiled at depth+2 each under depth+2 units, a newline and the closing
\* parenthesis after depth+1 units.
C8_Wrapping ==
    pc = "return" /\ root.operation # "INSERT" /\ ~IsPlaceholder(sql)
        => \A i \in 1..Len(root.conditions) :
             LET c == root.conditions[i]
             IN c.operator = "IN" /\ Truthy(c.subQueryId) /\ c.subQueryId \in DOMAIN root.subQueries
                  => Contains(sql, <<ShownColumn(c), SP, "IN", SP, "(", NL>>
                                     \o PrefixLines(BuildSQL(root.subQueries[c.subQueryId], depth + 2), depth + 2)
                                     \o <<NL>> \o Repeat(depth + 1) \o <<")">>)

C8_Witness ==
    /\ pc = "return"
    /\ root.operation = "UPDATE"
    /\ ~IsPlaceholder(sql)
    /\ depth = 1
    /\ \E i \in 1..Len(root.conditions) :
         /\ root.conditions[i].operator = "IN"
         /\ root.conditions[i].subQueryId \in DOMAIN root.subQueries
         /\ Len(Split(BuildSQL(root.subQueries[root.conditions[i].subQueryId], depth + 2))) > 2

\* C9: the text at depth 2 and the text at depth 0 of the same node have
\* the same number of lines and agree line by line once the leading white
\* space is removed.
C9_DepthIndentation ==
    pc = "return" /\ depth = 2
        => StrippedLines(sql) = StrippedLines(BuildSQL(root, 0))

C9_Witness ==
    /\ pc = "return"
    /\ depth = 2
    /\ Height(root) >= 2
    /\ sql # BuildSQL(root, 0)
    /\ ~IsPlaceholder(sql)

\* C10: with no conditions the text of a SELECT, UPDATE or DELETE node has
\* no WHERE and no empty line.
C10_WhereOmission ==
    pc = "return" /\ root.conditions = <<>> /\ root.operation \in {"SELECT", "UPDATE", "DELETE"}
        => /\ \A i \in 1..Len(sql) : sql[i] # "WHERE"
           /\ \A i \in 1..Len(Split(sql)) : Split(sql)[i] # <<>>

C10_Witness ==
    /\ pc = "return"
    /\ root.conditions = <<>>
    /\ root.operation = "SELECT"
    /\ root.limit # ""
    /\ root.orderBy # <<>>
    /\ ~IsPlaceholder(sql)

\* the pairs of a list whose column is not empty, in list order
RECURSIVE Filled(_)
Filled(pairs) ==
    IF pairs = <<>> THEN <<>>
    ELSE IF Head(pairs).column = "" THEN Filled(Tail(pairs))
    ELSE <<Head(pairs)>> \o Filled(Tail(pairs))

RECURSIVE CommaList(_)
\* texts separated by a comma and a space
CommaList(ts) ==
    IF ts = <<>> THEN <<>>
    ELSE IF Len(ts) = 1 THEN ts[1]
    ELSE ts[1] \o <<",", SP>> \o CommaList(Tail(ts))

\* the words that open the clauses an INSERT does not have
ClauseWords == {"WHERE", "JOIN", "ORDER BY", "LIMIT"}

\* node without its conditions, joins, orderBy, limit and subQueries
Bare(node) ==
    [node EXCEPT !.conditions = <<>>, !.joins = <<>>, !.orderBy = <<>>, !.limit = "",
                 !.subQueries = NoSubQueries]

\* C11: an INSERT node with a table and a filled pair yields exactly
\* INSERT INTO <table> (<cols>) newline VALUES (<vals>); from the filled
\* pairs in list order, the same text whatever its conditions, joins,
\* orderBy, limit, subQueries and the depth are, with none of WHERE, JOIN,
\* ORDER BY, LIMIT.
C11_InsertIgnoresClauses ==
    pc = "return" /\ root.operation = "INSERT" /\ root.table # "" /\ Filled(root.pairs) # <<>>
        => LET f == Filled(root.pairs)
           IN /\ sql = <<"INSERT INTO", SP, root.table, SP, "(">>
                         \o CommaList([i \in 1..Len(f) |-> <<f[i].column>>])
                         \o <<")", NL, "VALUES", SP, "(">>
                         \o CommaList([i \in 1..Len(f) |-> <<"'">> \o Str(f[i].value) \o <<"'">>])
                         \o <<")", SEMI>>
              /\ sql = BuildSQL(Bare(root), 0)
              /\ \A i \in 1..Len(sql) : sql[i] \notin ClauseWords

C11_Witness ==
    /\ pc = "return"
    /\ depth = 2
    /\ root.operation = "INSERT"
    /\ root.table # ""
    /\ Len(Filled(root.pairs)) = 2
    /\ Len(root.pairs) = 3
    /\ root.conditions # <<>>
    /\ root.joins # <<>>
    /\ root.orderBy # <<>>
    /\ root.limit # ""
    /\ sql # <<>>

\* a renaming of the opaque ids: a shift, or a mirror that reverses their order
RenameId(id, how) ==
    IF id \in {Absent, Undefined} THEN id
    ELSE IF how = "shift" THEN id + 1000
    ELSE 1000 - id

RenameIds(arr, how) == [i \in 1..Len(arr) |-> [arr[i] EXCEPT !.id = RenameId(@, how)]]

RECURSIVE Rename(_, _)
\* node with every id renamed: its own, those of its pairs, conditions,
\* joins and orderBy entries, the keys of subQueries and the subQueryId
\* values that refer to them, and so on in every subquery
Rename(node, how) ==
    [node EXCEPT
       !.id = RenameId(@, how),
       !.pairs = RenameIds(@, how),
       !.conditions = [i \in 1..Len(@) |->
                         [@[i] EXCEPT !.id = RenameId(@, how), !.subQueryId = RenameId(@, how)]],
       !.joins = RenameIds(@, how),
       !.orderBy = RenameIds(@, how),
       !.subQueries = [k \in {RenameId(j, how) : j \in DOMAIN @} |->
                         Rename(node.subQueries[CHOOSE j \in DOMAIN node.subQueries : RenameId(j, how) = k], how)]]

\* C12: two trees that differ only in the values of the ids (a consistent
\* renaming of node, pair, condition, join and orderBy ids and of the
\* subQueries keys with the subQueryId values that refer to them) compile
\* to the same text.  (Refuted by a renaming from or to an InheritedKey.)
C12_IdIndependence ==
    pc = "return" => \A how \in {"shift", "mirror"} : BuildSQL(Rename(root, how), depth) = sql

\* C13: a call of buildSQL leaves the whole tree as it was: the pairs with
\* an empty column, the joins with a missing field and the orderBy entries
\* with an empty column are left out of the text but stay in the
\* document, in the same order.
C13_ReadOnly == [][pc = "call" /\ pc' = "return" => root' = root /\ depth' = depth]_vars

C13_Witness ==
    /\ pc = "return"
    /\ root.operation = "SELECT"
    /\ ~IsPlaceholder(sql)
    /\ \E i \in 1..Len(root.pairs) : root.pairs[i].column = ""
    /\ \E i \in 1..Len(root.joins) : ~JoinRenders(root.joins[i])
    /\ \E i \in 1..Len(root.orderBy) : root.orderBy[i].column = ""
    /\ \A i \in 1..Len(sql) : sql[i] # "LEFT"

RECURSIVE LeadingUnits(_)
\* the number of two-space units a line starts with
LeadingUnits(line) ==
    IF line # <<>> /\ Head(line) = IND THEN 1 + LeadingUnits(Tail(line)) ELSE 0

RECURSIVE LinesAt(_, _)
\* the lines among ls that start with exactly n two-space units, without them
LinesAt(ls, n) ==
    IF ls = <<>> THEN <<>>
    ELSE IF LeadingUnits(Head(ls)) = n THEN <<StripLeading(Head(ls))>> \o LinesAt(Tail(ls), n)
    ELSE LinesAt(Tail(ls), n)

\* the lines of the statement of a node compiled at depth d, apart from
\* those of its WHERE chain and subqueries, which lie deeper: the first line
\* and the lines at d units, without the final semicolon
TopLines(t, d) ==
    LET ls == Split(SubSeq(t, 1, Len(t) - 1))
    IN <<Head(ls)>> \o LinesAt(Tail(ls), d)

\* the selectColumns that are empty or white space only
BlankColumns == {"", " ", "  "}

RECURSIVE RenderedJoins(_)
\* the joins with table, onLeft and onRight all filled, in list order
RenderedJoins(joins) ==
    IF joins = <<>> THEN <<>>
    ELSE IF Head(joins).table # "" /\ Head(joins).onLeft # "" /\ Head(joins).onRight # ""
         THEN <<Head(joins)>> \o RenderedJoins(Tail(joins))
         ELSE RenderedJoins(Tail(joins))

\* the ORDER BY line of a list of entries that have a column
OrderByLine(f) ==
    <<"ORDER BY", SP>> \o CommaList([i \in 1..Len(f) |-> <<f[i].column, SP, f[i].direction>>])

\* C16: a SELECT node with a table renders, in this order, SELECT
\* <cols-or-*>, FROM <table>, one <type> JOIN <table> ON <onLeft> =
\* <onRight> line per join with all three fields filled (in list order),
\* the WHERE clause, ORDER BY, LIMIT; blank selectColumns render as *; with
\* table users and nothing else the text is SELECT * / FROM users;
C16_SelectRendering ==
    pc = "return" /\ root.operation = "SELECT" /\ root.table # ""
        => LET top == TopLines(sql, depth)
               js == RenderedJoins(root.joins)
               J == Len(js)
               W == IF root.conditions # <<>> THEN 1 ELSE 0
               f == Filled(root.orderBy)
               O == IF f # <<>> THEN 1 ELSE 0
               L == IF root.limit # "" THEN 1 ELSE 0
               cols == IF root.selectColumns \in BlankColumns THEN "*" ELSE Trim(root.selectColumns)
           IN /\ Last(sql) = SEMI
              /\ Len(top) = 2 + J + W + O + L
              /\ top[1] = <<"SELECT", SP, cols>>
              /\ top[2] = <<"FROM", SP, root.table>>
              /\ \A i \in 1..J :
                   top[2 + i] = <<js[i].type, SP, "JOIN", SP, js[i].table, SP, "ON", SP,
                                  js[i].onLeft, SP, "=", SP, js[i].onRight>>
              /\ W = 1 => SubSeq(top[3 + J], 1, 2) = <<"WHERE", SP>>
              /\ O = 1 => top[2 + J + W + 1] = OrderByLine(f)
              /\ L = 1 => top[2 + J + W + O + 1] = <<"LIMIT", SP, root.limit>>
              /\ (depth = 0 /\ root.table = "users" /\ J + W + O + L = 0 /\ Len(root.joins) = 0
                    /\ Len(root.orderBy) = 0 /\ root.selectColumns = "*")
                   => sql = <<"SELECT", SP, "*", NL, "FROM", SP, "users", SEMI>>

C16_Witness ==
    /\ pc = "return"
    /\ depth = 1
    /\ root.operation = "SELECT"
    /\ root.table # ""
    /\ root.selectColumns = "  "
    /\ Len(root.joins) = 2
    /\ Len(RenderedJoins(root.joins)) = 1
    /\ Len(root.conditions) = 2
    /\ Len(Filled(root.orderBy)) = 2
    /\ root.limit # ""
    /\ Len(TopLines(sql, depth)) = 6

\* C17: a SELECT node emits an ORDER BY line listing, comma-joined and in
\* list order, exactly the orderBy entries with a column; with no such
\* entry the line is left out even when orderBy is not empty; a LIMIT <n>
\* line is emitted if and only if limit is not empty.
C17_OrderByLimit ==
    pc = "return" /\ root.operation = "SELECT" /\ root.table # ""
        => LET top == TopLines(sql, depth)
               f == Filled(root.orderBy)
               orders == {i \in 1..Len(top) : Head(top[i]) = "ORDER BY"}
               limits == {i \in 1..Len(top) : Head(top[i]) = "LIMIT"}
           IN /\ IF f = <<>> THEN orders = {}
                 ELSE Cardinality(orders) = 1 /\ \A i \in orders : top[i] = OrderByLine(f)
              /\ IF root.limit = "" THEN limits = {}
                 ELSE Cardinality(limits) = 1 /\ \A i \in limits : top[i] = <<"LIMIT", SP, root.limit>>

C17_Witness ==
    /\ pc = "return"
    /\ root.operation = "SELECT"
    /\ root.table # ""
    /\ Len(root.orderBy) = 1
    /\ Filled(root.orderBy) = <<>>
    /\ root.limit # ""
    /\ root.conditions # <<>>
    /\ Last(TopLines(sql, depth)) = <<"LIMIT", SP, root.limit>>

\* C18: an UPDATE node at depth d with a table and a filled pair renders
\* UPDATE <table>, a SET line at d units, one line per pair with a column,
\* in list order, at d+1 units reading <column> = '<value>', each but the
\* last ending with a comma, then the optional WHERE clause and the
\* semicolon.
C18_UpdateRendering ==
    pc = "return" /\ root.operation = "UPDATE" /\ root.table # "" /\ Filled(root.pairs) # <<>>
        => LET ls == Split(SubSeq(sql, 1, Len(sql) - 1))
               f == Filled(root.pairs)
               F == Len(f)
           IN /\ Last(sql) = SEMI
              /\ Len(ls) >= 2 + F
              /\ ls[1] = <<"UPDATE", SP, root.table>>
              /\ ls[2] = Repeat(depth) \o <<"SET">>
              /\ \A i \in 1..F :
                   ls[2 + i] = Repeat(depth + 1) \o <<f[i].column, SP, "=", SP, "'">> \o Str(f[i].value)
                                 \o <<"'">> \o (IF i < F THEN <<",">> ELSE <<>>)
              /\ IF root.conditions = <<>> THEN Len(ls) = 2 + F
                 ELSE /\ Len(ls) > 2 + F
                      /\ SubSeq(ls[3 + F], 1, depth + 2) = Repeat(depth) \o <<"WHERE", SP>>

C18_Witness ==
    /\ pc = "return"
    /\ depth = 2
    /\ root.operation = "UPDATE"
    /\ root.table # ""
    /\ Len(root.pairs) = 3
    /\ Len(Filled(root.pairs)) = 2
    /\ Len(root.conditions) = 2
    /\ Len(Split(sql)) >= 6

\* the node without its pairs, joins, orderBy and limit
WithoutLists(node) == [node EXCEPT !.pairs = <<>>, !.joins = <<>>, !.orderBy = <<>>, !.limit = ""]

\* C19: a DELETE node with a table renders DELETE FROM <table>, the
\* optional WHERE clause and the semicolon, whatever its pairs, joins,
\* orderBy and limit are; for table users and the single condition id = 5
\* the text is DELETE FROM users / WHERE id = '5';
C19_DeleteRendering ==
    pc = "return" /\ root.operation = "DELETE" /\ root.table # ""
        => LET top == TopLines(sql, depth)
               W == IF root.conditions # <<>> THEN 1 ELSE 0
           IN /\ Last(sql) = SEMI
              /\ Len(top) = 1 + W
              /\ top[1] = <<"DELETE FROM", SP, root.table>>
              /\ W = 1 => SubSeq(top[2], 1, 2) = <<"WHERE", SP>>
              /\ W = 0 => sql = <<"DELETE FROM", SP, root.table, SEMI>>
              /\ sql = BuildSQL(WithoutLists(root), depth)
              /\ (depth = 0 /\ root.table = "users" /\ Len(root.conditions) = 1
                    /\ root.conditions[1].column = "id" /\ root.conditions[1].operator = "="
                    /\ root.conditions[1].value = "5" /\ ~Truthy(root.conditions[1].subQueryId))
                   => sql = <<"DELETE FROM", SP, "users", NL, "WHERE", SP, "id", SP, "=", SP,
                              "'", "5", "'", SEMI>>

C19_Witness ==
    /\ pc = "return"
    /\ depth = 0
    /\ root.operation = "DELETE"
    /\ root.table = "users"
    /\ Len(root.conditions) = 1
    /\ root.conditions[1].value = "5"
    /\ Len(root.pairs) = 3
    /\ root.joins # <<>>
    /\ root.orderBy # <<>>
    /\ root.limit # ""
    /\ Len(sql) = 14

\* the logic word that is not g
OtherLogic(g) == IF g = "AND" THEN "OR" ELSE "AND"

\* C20: with conditions, at depth d, the clause is a WHERE <first-clause>
\* line at d units followed, for each later condition in list order, by a
\* line at d+1 units reading <logic> <clause>; the logic of the first
\* condition does not show: changing it leaves the text unchanged.
C20_WhereChain ==
    pc = "return" /\ root.operation # "INSERT" /\ ~IsPlaceholder(sql) /\ root.conditions # <<>>
        => LET cs == root.conditions
               chain == <<NL>> \o Repeat(depth) \o <<"WHERE", SP>>
                          \o ConditionClause(cs[1], root.subQueries, depth)
                          \o Flatten([i \in 1..(Len(cs) - 1) |->
                                        <<NL>> \o Repeat(depth + 1) \o <<cs[i + 1].logic, SP>>
                                          \o ConditionClause(cs[i + 1], root.subQueries, depth)])
           IN /\ Contains(sql, chain)
              /\ Cardinality({i \in 1..Len(TopLines(sql, depth)) : Head(TopLines(sql, depth)[i]) = "WHERE"}) = 1
              /\ sql = BuildSQL([root EXCEPT !.conditions[1].logic = OtherLogic(@)], depth)

C20_Witness ==
    /\ pc = "return"
    /\ depth = 1
    /\ root.operation = "UPDATE"
    /\ ~IsPlaceholder(sql)
    /\ Len(root.conditions) = 2
    /\ root.conditions[1].logic = "OR"
    /\ root.conditions[2].logic = "OR"
    /\ \A i \in 1..Len(sql) : sql[i] # THROW

----------------------------------------------------------------------------
(* Properties of the page (SpecPage)                                       *)

\* the file parses as JSON, its $schema is the literal of this version and
\* its root is an object other than null (an array is an object)
Accepts(file) ==
    /\ file.text = "json"
    /\ file.value.t = "object"
    /\ file.value.obj.schema.t = "string"
    /\ file.value.obj.schema.str = "sql-forge/visual-query/v1"
    /\ file.value.obj.root.t \in {"object", "array"}

\* C14: a loaded document replaces the root if and only if it parses as
\* JSON, its $schema is sql-forge/visual-query/v1 and its root is a non-null
\* object; in every other case the root and the query name stay as they
\* are and an error toast is shown.
C14_ImportAcceptance ==
    [][Len(reading') < Len(reading)
         => \E i \in 1..Len(reading) :
              /\ reading' = RemoveAt(reading, i)
              /\ IF Accepts(reading[i])
                 THEN /\ root' = (IF reading[i].value.obj.root.t = "object"
                                  THEN reading[i].value.obj.root.obj ELSE EmptyObject)
                      /\ toast'.type = "success"
                 ELSE /\ root' = root
                      /\ queryName' = queryName
                      /\ sql' = sql
                      /\ toast'.type = "error"]_vars

\* a file with the right $schema and a null root was refused after the
\* query was renamed
C14_Witness ==
    /\ pc = "render"
    /\ reading = <<>>
    /\ steps = 2
    /\ toast = Toast("error", <<"Invalid file: not a SQL Forge query">>)
    /\ queryName = "q"
    /\ Height(root) = 3

\* the file is an export of node
IsExportOf(file, node) ==
    /\ file.text = "json"
    /\ file.value.t = "object"
    /\ file.value.obj.schema = JString(SCHEMA)
    /\ file.value.obj.root = JObject(DropUndefined(node))

\* C15: importing the export of the document leaves a root structurally
\* identical to the exported one, with the same SQL text; also for a
\* document with a condition from which a subquery was detached.
C15_RoundTrip ==
    [][Len(reading') < Len(reading)
         => \A i \in 1..Len(reading) :
              reading' = RemoveAt(reading, i) /\ IsExportOf(reading[i], root)
                => root' = root /\ sql' = sql]_vars

----------------------------------------------------------------------------
(* The clause of one condition (SpecCompile)                               *)

\* subQueryId is set and is a key of the map
Resolvable(c, subQueries) == Truthy(c.subQueryId) /\ c.subQueryId \in DOMAIN subQueries

\* the operand a resolvable subquery renders to: the child compiled at
\* d+2, every line under d+2 units, between parentheses
SubqueryOperand(c, subQueries, d) ==
    <<"(", NL>> \o PrefixLines(BuildSQL(subQueries[c.subQueryId], d + 2), d + 2)
      \o <<NL>> \o Repeat(d + 1) \o <<")">>

\* the texts the operator partition allows for the clause of c: none when
\* the operator is EXISTS / NOT EXISTS and there is no subquery to render
PartitionClauses(c, subQueries, d) ==
    IF c.operator \in {"EXISTS", "NOT EXISTS"}
    THEN IF Resolvable(c, subQueries)
         THEN {<<c.operator, SP>> \o SubqueryOperand(c, subQueries, d)}
         ELSE {}
    ELSE IF c.operator \in {"IS NULL", "IS NOT NULL"}
    THEN {<<ShownColumn(c), SP, c.operator>>}
    ELSE IF Resolvable(c, subQueries)
    THEN {<<ShownColumn(c), SP, c.operator, SP>> \o SubqueryOperand(c, subQueries, d)}
    ELSE {<<ShownColumn(c), SP, c.operator, SP, "'">> \o Str(c.value) \o <<"'">>}

\* the condition is one the partition fails on: EXISTS / NOT EXISTS without
\* a resolvable subquery, or an id that names an inherited member
OutsidePartition(c, subQueries) ==
    \/ c.operator \in {"EXISTS", "NOT EXISTS"} /\ ~Resolvable(c, subQueries)
    \/ c.operator \notin {"IS NULL", "IS NOT NULL"} /\ c.subQueryId = InheritedKey

\* C21: every condition of a compiled SELECT, UPDATE or DELETE shows in the
\* text as the clause the operator partition gives: EXISTS / NOT EXISTS as
\* operator and subquery operand without the column; IS NULL / IS NOT NULL as
\* column and operator without operand; another operator with a set and
\* resolvable subQueryId as column, operator, subquery operand; otherwise
\* column, operator and the quoted value, the word column standing for an
\* empty column.
C21_ClausePartition ==
    pc = "return" /\ root.operation # "INSERT" /\ ~IsPlaceholder(sql)
        => \A i \in 1..Len(root.conditions) :
             \E clause \in PartitionClauses(root.conditions[i], root.subQueries, depth) :
                 Contains(sql, <<SP>> \o clause)

\* the partition holds of every condition that is not OutsidePartition
PartitionHoldsElsewhere ==
    pc = "return" /\ root.operation # "INSERT" /\ ~IsPlaceholder(sql)
        => \A i \in 1..Len(root.conditions) :
             OutsidePartition(root.conditions[i], root.subQueries)
               \/ ConditionClause(root.conditions[i], root.subQueries, depth)
                    \in PartitionClauses(root.conditions[i], root.subQueries, depth)

----------------------------------------------------------------------------
(* Subqueries in the documents the editor produces (Spec)                  *)

\* C22: in every node of the document, each condition whose operator is
\* EXISTS or NOT EXISTS has a subQueryId that is a key of the subQueries of
\* its node, and the text never shows EXISTS or NOT EXISTS followed by a
\* quoted literal.
C22_ExistsHasSubquery ==
    /\ \A l \in Levels(root, 0) :
         \A i \in 1..Len(l.node.conditions) :
            l.node.conditions[i].operator \in {"EXISTS", "NOT EXISTS"}
              => Resolvable(l.node.conditions[i], l.node.subQueries)
    /\ \A op \in {"EXISTS", "NOT EXISTS"} : ~Contains(sql, <<op, SP, "'">>)

\* C23: no node below the root has operation INSERT, and the text of an
\* INSERT never stands inside the text of another statement.
C23_InsertNeverNested ==
    /\ \A l \in Levels(root, 0) : l.level >= 1 => l.node.operation # "INSERT"
    /\ \A i \in 2..Len(sql) : sql[i] # "INSERT INTO"

RECURSIVE ValidPath(_, _)
\* path leads from node to a node, entry by entry
ValidPath(node, path) ==
    path = <<>> \/ (Head(path) \in DOMAIN node.subQueries /\ ValidPath(node.subQueries[Head(path)], Tail(path)))

\* the ids of the nodes of the tree under node, node included
NodeIds(node) == {l.node.id : l \in Levels(node, 0)}

\* the fields of a node other than conditions and subQueries
OwnFields(node) ==
    <<node.id, node.operation, node.table, node.selectColumns, node.pairs, node.joins, node.orderBy, node.limit>>

\* the step detaches the subquery of condition i of the node at path: the
\* condition had a subQueryId and is still there without one
DetachStep(path, i) ==
    /\ Truthy(NodeAt(root, path).conditions[i].subQueryId)
    /\ ValidPath(root', path)
    /\ \E j \in 1..Len(NodeAt(root', path).conditions) :
         /\ NodeAt(root', path).conditions[j].id = NodeAt(root, path).conditions[i].id
         /\ ~Truthy(NodeAt(root', path).conditions[j].subQueryId)

\* what a detach of condition i of the node at path leaves behind
DetachEffect(path, i) ==
    LET before == NodeAt(root, path)
        after == NodeAt(root', path)
        k == before.conditions[i].subQueryId
    IN /\ DOMAIN after.subQueries = DOMAIN before.subQueries \ {k}
       /\ k \in DOMAIN before.subQueries
            => NodeIds(before.subQueries[k]) \cap NodeIds(root') = {}
       /\ \A x \in DOMAIN after.subQueries : after.subQueries[x] = before.subQueries[x]
       /\ Len(after.conditions) = Len(before.conditions)
       /\ \A j \in 1..Len(before.conditions) : j # i => after.conditions[j] = before.conditions[j]
       /\ after.conditions[i] = [before.conditions[i] EXCEPT !.subQueryId = Undefined, !.value = ""]
       /\ OwnFields(after) = OwnFields(before)

\* C24: a step that detaches the subquery of a condition removes the entry
\* of that subquery from subQueries of the node, and with it every node
\* under it (no id of theirs is the id of a node of the new root), leaves
\* the condition without subQueryId, and leaves every other condition,
\* every other entry and every other field of the node as they were; of the
\* condition itself only subQueryId and value change.
C24_Detach ==
    [][\A path \in EditorPaths(root) :
         \A i \in 1..Len(NodeAt(root, path).conditions) :
            DetachStep(path, i) => DetachEffect(path, i)]_vars

C24_Witness ==
    /\ steps = 1
    /\ \E path \in EditorPaths(root) :
         /\ Len(path) = 1
         /\ \E i \in 1..Len(NodeAt(root, path).conditions) :
              NodeAt(root, path).conditions[i].subQueryId = Undefined
         /\ DOMAIN NodeAt(root, path).subQueries = {}

\* the node is an empty SELECT node: empty table, selectColumns *, one blank
\* pair, no conditions, joins, orderBy or subQueries, empty limit
IsEmptySelect(n) ==
    /\ n.operation = "SELECT" /\ n.table = "" /\ n.selectColumns = "*" /\ n.limit = ""
    /\ Len(n.pairs) = 1 /\ n.pairs[1].column = "" /\ n.pairs[1].value = ""
    /\ n.conditions = <<>> /\ n.joins = <<>> /\ n.orderBy = <<>>
    /\ DOMAIN n.subQueries = {}

\* the step attaches a subquery to condition i of the node at path: the
\* condition had no subQueryId and is still there with one
AttachStep(path, i) ==
    /\ ~Truthy(NodeAt(root, path).conditions[i].subQueryId)
    /\ ValidPath(root', path)
    /\ Len(NodeAt(root', path).conditions) >= i
    /\ NodeAt(root', path).conditions[i].id = NodeAt(root, path).conditions[i].id
    /\ Truthy(NodeAt(root', path).conditions[i].subQueryId)

\* what an attach to condition i of the node at path leaves behind
AttachEffect(path, i) ==
    LET before == NodeAt(root, path)
        after == NodeAt(root', path)
        k == after.conditions[i].subQueryId
    IN /\ k \notin UsedIds(root)
       /\ DOMAIN after.subQueries = DOMAIN before.subQueries \cup {k}
       /\ IsEmptySelect(after.subQueries[k])
       /\ after.subQueries[k].id = k
       /\ UsedIds(after.subQueries[k]) \cap UsedIds(root) = {}
       /\ \A x \in DOMAIN before.subQueries : after.subQueries[x] = before.subQueries[x]
       /\ Len(after.conditions) = Len(before.conditions)
       /\ \A j \in 1..Len(before.conditions) : j # i => after.conditions[j] = before.conditions[j]
       /\ [after.conditions[i] EXCEPT !.subQueryId = Absent, !.operator = "="]
            = [before.conditions[i] EXCEPT !.subQueryId = Absent, !.operator = "="]
       /\ OwnFields(after) = OwnFields(before)

\* the two ways to attach are offered for condition i of the editor at path
\* and do attach: the toggle button, and the operator select at depth < 3
AttachOffered(path, i) ==
    LET node == NodeAt(root, path)
        cond == node.conditions[i]
        sq == NewSubQuery(UsedIds(root))
    IN Len(path) < MAX_DEPTH /\ node.operation # "INSERT" /\ ~Truthy(cond.subQueryId)
         => /\ AttachSubQuery(node, cond.id, sq).conditions[i].subQueryId = sq.id
            /\ \A op \in SUBQUERY_OPERATORS :
                 /\ OperatorChange(node, Len(path), cond, op, sq).conditions[i].subQueryId = sq.id
                 /\ OperatorChange(node, Len(path), cond, op, sq).conditions[i].operator = op
                 /\ sq.id \in DOMAIN OperatorChange(node, Len(path), cond, op, sq).subQueries

\* a condition that has a subQueryId keeps it or loses it, and subQueries
\* of a node gains a key only by an attach to one of its conditions
NoSecondAttach(path) ==
    LET before == NodeAt(root, path)
        after == NodeAt(root', path)
    IN ValidPath(root', path)
         => /\ \A i \in 1..Len(before.conditions), j \in 1..Len(after.conditions) :
                 /\ Truthy(before.conditions[i].subQueryId)
                 /\ after.conditions[j].id = before.conditions[i].id
                 /\ Truthy(after.conditions[j].subQueryId)
                 => after.conditions[j].subQueryId = before.conditions[i].subQueryId
            /\ DOMAIN after.subQueries \ DOMAIN before.subQueries # {}
                 => \E i \in 1..Len(before.conditions) : AttachStep(path, i)

\* C25: a step that attaches a subquery to a condition that had none adds
\* exactly one entry to subQueries of its node, under a key no entity of the
\* document held, the entry being an empty SELECT node, and sets the
\* subQueryId of that condition alone to the key; the toggle button and the
\* operator select (IN, NOT IN, EXISTS, NOT EXISTS, at depth < 3) do so; no
\* step gives a new subquery to a condition that has one.
C25_Attach ==
    [][\A path \in EditorPaths(root) :
         /\ NoSecondAttach(path)
         /\ \A i \in 1..Len(NodeAt(root, path).conditions) :
              /\ AttachOffered(path, i)
              /\ AttachStep(path, i) => AttachEffect(path, i)]_vars

C25_Witness ==
    /\ steps = 2
    /\ Len(root.conditions) = 2
    /\ \A i \in 1..2 : Resolvable(root.conditions[i], root.subQueries)
    /\ root.conditions[1].subQueryId # root.conditions[2].subQueryId
    /\ IsEmptySelect(root.subQueries[root.conditions[2].subQueryId])
    /\ ~IsEmptySelect(root.subQueries[root.conditions[1].subQueryId])

\* the node at path differs from the one before the step only in the entry
\* k of subQueries: same keys, same other entries, same conditions, same
\* other fields
OnlyEntryDiffers(path, k) ==
    LET before == NodeAt(root, path)
        after == NodeAt(root', path)
    IN /\ DOMAIN after.subQueries = DOMAIN before.subQueries
       /\ \A x \in DOMAIN before.subQueries \ {k} : after.subQueries[x] = before.subQueries[x]
       /\ after.conditions = before.conditions
       /\ OwnFields(after) = OwnFields(before)

\* C26: for every step and every node below the root that the step leaves
\* in place with a change, each ancestor of the node differs from what it
\* was only in the entry of subQueries that leads to the node: the sibling
\* subqueries and every other field of every ancestor (operation, table,
\* conditions, pairs, joins, orderBy, limit) are as before.
C26_CopyOnWriteFrame ==
    [][\A path \in EditorPaths(root) :
         ValidPath(root', path) /\ NodeAt(root', path) # NodeAt(root, path)
           => \A n \in 0..(Len(path) - 1) : OnlyEntryDiffers(SubSeq(path, 1, n), path[n + 1])]_vars

\* an edit two levels down, under a root that holds a second subquery
C26_Witness ==
    /\ steps = 1
    /\ Cardinality(DOMAIN root.subQueries) = 2
    /\ \E k \in DOMAIN root.subQueries :
         \E j \in DOMAIN root.subQueries[k].subQueries :
            root.subQueries[k].subQueries[j].table # ""

----------------------------------------------------------------------------
(* Session start and Reset (SpecPage)                                      *)

\* C27: the root of a new session is an empty node, its query name is
\* my_query and its text is the table placeholder; and every Reset, from
\* whatever document, query name, toast and download, leaves an empty node
\* as root, my_query as query name and the table placeholder as text.
C27_Lifecycle ==
    [][/\ IsEmptySelect(EmptyRoot) /\ BuildSQL(EmptyRoot, 0) = <<PH_TABLE>>
       /\ steps = 0 => queryName = "my_query"
       /\ HandleReset => /\ IsEmptySelect(root')
                         /\ queryName' = "my_query"
                         /\ sql' = <<PH_TABLE>>]_vars

\* a Reset has acted on a page whose export of a document with a subquery
\* is still on disk
C27_Witness ==
    /\ steps = 2
    /\ IsEmptySelect(root)
    /\ queryName = "my_query"
    /\ sql = <<PH_TABLE>>
    /\ download # NoFile
    /\ download # ExportFile(EmptyRoot, "my_query")

----------------------------------------------------------------------------
(* The terminator (SpecCompile)                                            *)

\* C28: the text compiled for a node holds at most one ; written by the
\* generator, and that one is its last character: the text of a subquery
\* between the parentheses of a condition has none.
C28_SingleTerminator ==
    pc = "return" /\ depth = 0
        => \A i \in 1..Len(sql) : sql[i] = SEMI => i = Len(sql)

----------------------------------------------------------------------------
(* References of the documents the editor produces (Spec)                  *)

\* C29: in every node of the document, every condition whose subQueryId is
\* set names a key of subQueries of that node, and no two conditions of the
\* node carry the same subQueryId.
C29_NoDanglingReference ==
    \A l \in Levels(root, 0) :
       LET cs == l.node.conditions
       IN /\ \A i \in 1..Len(cs) : Truthy(cs[i].subQueryId) => cs[i].subQueryId \in DOMAIN l.node.subQueries
          /\ \A i, j \in 1..Len(cs) :
               Truthy(cs[i].subQueryId) /\ cs[i].subQueryId = cs[j].subQueryId => i = j

\* one subquery of two was detached: one condition has lost its reference,
\* the other still holds its own
C29_Witness ==
    /\ steps = 1
    /\ Len(root.conditions) = 2
    /\ root.conditions[1].subQueryId = Undefined
    /\ Truthy(root.conditions[2].subQueryId)
    /\ DOMAIN root.subQueries = {root.conditions[2].subQueryId}

----------------------------------------------------------------------------
(* The legacy builders against buildSQL (SpecCompile)                      *)

\* the operators the legacy page offers
LegacyOperators == {"=", "!=", ">", "<", ">=", "<=", "LIKE", "IN", "IS NULL", "IS NOT NULL"}

\* a node the legacy page can hold: no subquery attached, legacy operators
LegacyNode(node) ==
    /\ DOMAIN node.subQueries = {}
    /\ \A i \in 1..Len(node.conditions) :
         /\ ~Truthy(node.conditions[i].subQueryId)
         /\ node.conditions[i].operator \in LegacyOperators

\* an orderBy list with entries, none of which has a column
BlankOrderBy(node) == Len(node.orderBy) > 0 /\ OrderByCols(node.orderBy) = <<>>

\* C30: for every node without subquery whose conditions use the operators
\* of the legacy set, the text of buildSQL(node, 0) is the text the legacy
\* builders give for the same table, columns, pairs, conditions, joins,
\* orderBy and limit.
C30_LegacyEquivalence ==
    pc = "return" /\ depth = 0 /\ LegacyNode(root) => sql = LegacySQL(root)

\* the two agree except on a SELECT whose orderBy list holds blank columns
\* only, and there they differ
LegacyEqualElsewhere ==
    pc = "return" /\ depth = 0 /\ LegacyNode(root)
        => (sql = LegacySQL(root)) = ~(root.operation = "SELECT" /\ root.table # "" /\ BlankOrderBy(root))

====
